---- MODULE Spec2Model ----
(***************************************************************************)
(* A model of the let_them_review orchestration engine: ReviewBot          *)
(* (src/review-bot/reviewBot.js) and FixBot (src/fix-bot/fixBot.js) run    *)
(* against the MCP client (src/mcp/client.js) and the GitHub client        *)
(* (src/utils/github.js).  Every external call (Claude API, GitHub API,    *)
(* local filesystem) is a step whose outcome is drawn from a small set.    *)
(***************************************************************************)
EXTENDS Integers, Sequences, FiniteSets, TLC

\* ------------------------------------------------------------------ bounds
\* Longest file list the platform returns in one run.
MaxFiles == 3
\* Longest generated comment, in words (the trigger parser's inputs).
MaxWords == 2

\* ------------------------------------------------------- program constants
maxFilesPerReview == 50
maxChangesPerRun == 10
ReviewSizeLimit == 1000
FixSizeLimit == 500

excludePatterns ==
  << "node_modules/**", "dist/**", "build/**", "*.min.js", "*.min.css",
     "package-lock.json", "yarn.lock" >>

supportedLanguages ==
  { "javascript", "typescript", "python", "java", "go", "rust", "cpp", "csharp" }

\* ------------------------------------------------------------------ strings
\* JavaScript string primitives, computed character by character.
UpperChars == "ABCDEFGHIJKLMNOPQRSTUVWXYZ"
LowerChars == "abcdefghijklmnopqrstuvwxyz"

CharAt(s, i) == SubSeq(s, i, i)
Drop(s, n) == SubSeq(s, n + 1, Len(s))

LowerChar(c) ==
  IF \E i \in 1..Len(UpperChars) : CharAt(UpperChars, i) = c
  THEN CharAt(LowerChars, CHOOSE i \in 1..Len(UpperChars) : CharAt(UpperChars, i) = c)
  ELSE c

RECURSIVE toLowerCase(_)
toLowerCase(s) ==
  IF s = "" THEN "" ELSE LowerChar(Head(s)) \o toLowerCase(Tail(s))

\* String.prototype.includes
includes(s, t) ==
  \E i \in 1..(Len(s) - Len(t) + 1) : SubSeq(s, i, i + Len(t) - 1) = t

StartsWith(s, t) == Len(s) >= Len(t) /\ SubSeq(s, 1, Len(t)) = t

IsSpace(c) == c \in { " ", "\t", "\n", "\r" }

RECURSIVE TrimLeft(_)
TrimLeft(s) ==
  IF s # "" /\ IsSpace(CharAt(s, 1)) THEN TrimLeft(Drop(s, 1)) ELSE s

RECURSIVE TrimRight(_)
TrimRight(s) ==
  IF s # "" /\ IsSpace(CharAt(s, Len(s)))
  THEN TrimRight(SubSeq(s, 1, Len(s) - 1)) ELSE s

\* String.prototype.trim
trim(s) == TrimRight(TrimLeft(s))

\* s.replace(/<from>/g, to) for a literal `from`
RECURSIVE ReplaceAll(_, _, _)
ReplaceAll(s, from, to) ==
  IF s = "" THEN ""
  ELSE IF StartsWith(s, from) THEN to \o ReplaceAll(Drop(s, Len(from)), from, to)
  ELSE CharAt(s, 1) \o ReplaceAll(Drop(s, 1), from, to)

\* ------------------------------------------------------------ Trigger parser
MentionToken == "@fixbot"

NoFixRequest == [shouldFix |-> FALSE, type |-> "none", scope |-> "none"]

\* A parser that forgets to lowercase the comment.
parseFixRequestCaseSensitive(commentBody) ==
  IF ~includes(commentBody, MentionToken) THEN NoFixRequest
  ELSE IF includes(commentBody, "apply") \/ includes(commentBody, "fix")
       THEN IF includes(commentBody, "all")
            THEN [shouldFix |-> TRUE, type |-> "general", scope |-> "all"]
            ELSE [shouldFix |-> TRUE, type |-> "specific", scope |-> "targeted"]
       ELSE [shouldFix |-> TRUE, type |-> "general", scope |-> "suggested"]

parseFixRequest(commentBody) ==
  LET normalizedComment == toLowerCase(commentBody) IN
  IF ~includes(normalizedComment, MentionToken) THEN NoFixRequest
  ELSE IF includes(normalizedComment, "apply") \/ includes(normalizedComment, "fix")
       THEN IF includes(normalizedComment, "all")
            THEN [shouldFix |-> TRUE, type |-> "general", scope |-> "all"]
            ELSE [shouldFix |-> TRUE, type |-> "specific", scope |-> "targeted"]
       ELSE [shouldFix |-> TRUE, type |-> "general", scope |-> "suggested"]

\* ---------------------------------------------------------- Artifact selector
\* The regular expression filterFiles builds from one exclude pattern: the
\* second replace also rewrites the star the first one produced.
PatternRegex(pattern) == ReplaceAll(ReplaceAll(pattern, "**", ".*"), "*", "[^/]*")

NonSepStar == "[^/]*"

\* Does the regular expression `re` match a prefix of s?  The expressions
\* PatternRegex produces hold literals, "." and "[^/]*" only.
RECURSIVE MatchPrefix(_, _)
MatchPrefix(re, s) ==
  IF re = "" THEN TRUE
  ELSE IF StartsWith(re, NonSepStar)
       THEN \E k \in 0..Len(s) :
              /\ \A j \in 1..k : CharAt(s, j) # "/"
              /\ MatchPrefix(Drop(re, Len(NonSepStar)), Drop(s, k))
  ELSE IF CharAt(re, 1) = "."
       THEN s # "" /\ CharAt(s, 1) \notin {"\n", "\r"} /\ MatchPrefix(Drop(re, 1), Drop(s, 1))
  ELSE s # "" /\ CharAt(s, 1) = CharAt(re, 1) /\ MatchPrefix(Drop(re, 1), Drop(s, 1))

\* RegExp.prototype.test: an unanchored search
RegexTest(re, s) == \E i \in 0..Len(s) : MatchPrefix(re, Drop(s, i))

IsExcluded(filename) ==
  \E p \in 1..Len(excludePatterns) : RegexTest(PatternRegex(excludePatterns[p]), filename)

filterFiles(fs) == SelectSeq(fs, LAMBDA f : ~IsExcluded(f.filename))

\* A slice that keeps the whole list.
SliceAll(s, n) == s

\* A slice that lists every kept artifact a second time.
SliceTwice(s, n) ==
  SubSeq(s, 1, IF Len(s) < n THEN Len(s) ELSE n)
    \o SubSeq(s, 1, IF Len(s) < n THEN Len(s) ELSE n)

\* Array.prototype.slice(0, n)
Slice(s, n) == SubSeq(s, 1, IF Len(s) < n THEN Len(s) ELSE n)

\* ------------------------------------------------------------ detectLanguage
languageMap ==
  [ js |-> "javascript", jsx |-> "javascript", ts |-> "typescript",
    tsx |-> "typescript", py |-> "python", java |-> "java", go |-> "go",
    rs |-> "rust", cpp |-> "cpp", cc |-> "cpp", cxx |-> "cpp", c |-> "c",
    cs |-> "csharp", php |-> "php", rb |-> "ruby", swift |-> "swift",
    kt |-> "kotlin", scala |-> "scala", sh |-> "bash", sql |-> "sql",
    html |-> "html", css |-> "css", scss |-> "scss", sass |-> "sass",
    json |-> "json", yaml |-> "yaml", yml |-> "yaml", xml |-> "xml",
    md |-> "markdown" ]

\* filename.split('.').pop()
RECURSIVE LastSegment(_)
LastSegment(s) ==
  IF includes(s, ".")
  THEN LastSegment(Drop(s, CHOOSE i \in 1..Len(s) : CharAt(s, i) = "."))
  ELSE s

detectLanguage(filename) ==
  LET extension == toLowerCase(LastSegment(filename)) IN
  IF extension \in DOMAIN languageMap THEN languageMap[extension] ELSE "text"


\* ------------------------------------------------------------- data model
\* A ChangedArtifact as pulls.listFiles returns it (a missing patch reads as "").
Artifact(name, st, add, del, p) ==
  [filename |-> name, status |-> st, additions |-> add, deletions |-> del, patch |-> p]

FilePool ==
  << Artifact("src/a.js",    "modified", 6,    4,   "@@ -1 +1 @@"),
     Artifact("b.py",        "added",    500,  0,   "@@ -0,0 +1 @@"),
     Artifact("lib/c.go",    "modified", 600,  400, "@@ -2 +2 @@"),
     Artifact("old.ts",      "removed",  0,    30,  "@@ -1,30 +0,0 @@"),
     Artifact("dist/x.js",   "modified", 3,    1,   "@@ -3 +3 @@"),
     Artifact("README.md",   "modified", 5,    0,   " \n"),
     Artifact("big.java",    "modified", 1000, 1,   "@@ -4 +4 @@"),
     Artifact("docs/api.md", "added",    40,   0,   "@@ -0,0 +5 @@"),
     Artifact("src/util.js", "renamed",  2,    2,   "@@ -7,2 +7,2 @@") >>

\* The increasing sequence of the members of a set of indices.
RECURSIVE SortedSeq(_)
SortedSeq(S) ==
  IF S = {} THEN << >>
  ELSE LET m == CHOOSE x \in S : \A y \in S : x <= y IN << m >> \o SortedSeq(S \ {m})

\* Sub-lists of the pool, in the pool's order.
ShortLists ==
  { [i \in 1..Cardinality(S) |-> FilePool[SortedSeq(S)[i]]] :
      S \in { T \in SUBSET (1..Len(FilePool)) : Cardinality(T) <= MaxFiles } }

BulkName(i) == "bulk/f" \o ToString(i) \o ".js"

\* A pull request of n + 2 files: the first n - 1 are too large for either
\* bot, the last three are small.
LongList(n) ==
  [i \in 1..(n + 2) |->
     IF i < n THEN Artifact(BulkName(i), "modified", 2000, 0, "@@ -1 +1,2000 @@")
     ELSE Artifact(BulkName(i), "modified", 1, 1, "@@ -1 +1 @@")]

\* Pull requests with more files than a run takes.
LongLists == { LongList(maxFilesPerReview), LongList(maxChangesPerRun) }

\* The file lists pulls.listFiles may return.
FileLists == ShortLists \cup LongLists

Issue(t, s) == [type |-> t, severity |-> s]

Analysis(sum, iss, rating, recs) ==
  [summary |-> sum, issues |-> iss, overallRating |-> rating, recommendations |-> recs]

\* The analysis objects the reasoning capability may answer with.
AnalysisChoices ==
  { Analysis("clean", << >>, "excellent", << >>),
    Analysis("one nit", << Issue("style", "low") >>, "good", << "run the linter" >>),
    Analysis("risky", << Issue("style", "high"), Issue("security", "medium") >>,
             "needs-improvement", << "add tests" >>),
    Analysis("mixed",
             << Issue("performance", "medium"), Issue("documentation", "low"),
                Issue("refactor", "low") >>,
             "fair", << "run the linter", "split the module" >>) }

NoAnalysis == Analysis("", << >>, "", << >>)

\* JSON.stringify of an issue and of an analysis object.
Quote(str) == "\"" \o str \o "\""

RECURSIVE JoinComma(_)
JoinComma(strs) ==
  IF strs = << >> THEN ""
  ELSE IF Len(strs) = 1 THEN strs[1]
  ELSE strs[1] \o "," \o JoinComma(Tail(strs))

stringifyIssue(issue) ==
  "{\"type\":" \o Quote(issue.type) \o ",\"severity\":" \o Quote(issue.severity) \o "}"

stringify(a) ==
  "{\"summary\":" \o Quote(a.summary)
    \o ",\"issues\":["
    \o JoinComma([i \in 1..Len(a.issues) |-> stringifyIssue(a.issues[i])])
    \o "],\"overallRating\":" \o Quote(a.overallRating)
    \o ",\"recommendations\":["
    \o JoinComma([i \in 1..Len(a.recommendations) |-> Quote(a.recommendations[i])])
    \o "]}"

\* JSON.parse on the texts of this model: a text is valid JSON exactly when it
\* is the serialisation of an analysis object; prose, and anything that holds
\* prose, is not.
JSONparse(text) ==
  IF \E a \in AnalysisChoices : stringify(a) = text
  THEN [threw |-> FALSE, value |-> CHOOSE a \in AnalysisChoices : stringify(a) = text]
  ELSE [threw |-> TRUE, value |-> NoAnalysis]

\* String.prototype.indexOf / lastIndexOf of one character, 1-based, 0 for none.
IndexOf(str, c) ==
  IF \E i \in 1..Len(str) : CharAt(str, i) = c
  THEN CHOOSE i \in 1..Len(str) :
         CharAt(str, i) = c /\ \A j \in 1..(i - 1) : CharAt(str, j) # c
  ELSE 0

LastIndexOf(str, c) ==
  IF \E i \in 1..Len(str) : CharAt(str, i) = c
  THEN CHOOSE i \in 1..Len(str) :
         CharAt(str, i) = c /\ \A j \in (i + 1)..Len(str) : CharAt(str, j) # c
  ELSE 0

\* content.match(/\{[\s\S]*\}/): greedy, so from the first "{" to the last
\* "}"; "" stands for null (a match is never empty).
jsonMatch(content) ==
  LET open == IndexOf(content, "{")
      close == LastIndexOf(content, "}")
  IN IF open > 0 /\ close > open THEN SubSeq(content, open, close) ELSE ""

\* String.prototype.substring(0, n)
substring0(str, n) == SubSeq(str, 1, IF Len(str) < n THEN Len(str) ELSE n)

\* A fallback that keeps the whole text.
parseTextResponseWhole(content) ==
  Analysis(content \o "...", << >>, "unknown", << "Manual review recommended" >>)

parseTextResponse(content) ==
  Analysis(substring0(content, 200) \o "...", << >>, "unknown",
           << "Manual review recommended" >>)

\* What the catch of parseResponse returns.
ParseErrorFallback == Analysis("Error parsing response", << >>, "unknown", << >>)

\* A response of messages.create: kind "error" when the call rejects, "notext"
\* when content[0].text is missing, "text" with the text otherwise.
Response(k, t) == [kind |-> k, text |-> t]

parseResponse(response) ==
  IF response.kind = "notext" THEN ParseErrorFallback
  ELSE LET content == response.text
           match == jsonMatch(content)
       IN IF match # ""
          THEN IF JSONparse(match).threw THEN ParseErrorFallback
               ELSE JSONparse(match).value
          ELSE parseTextResponse(content)

\* analyzeCode: rethrows when the API call fails, else parseResponse.
analyzeCode(response) ==
  IF response.kind = "error" THEN [threw |-> TRUE, value |-> NoAnalysis]
  ELSE [threw |-> FALSE, value |-> parseResponse(response)]

\* What anthropic.messages.create answers to an analysis prompt in a run: it
\* rejects, or resolves with a message that has no text block, with prose, with
\* braces that are not JSON, or with a JSON analysis object.
InspectResponses ==
  { Response("error", ""), Response("notext", ""),
    Response("text", "Looks fine to me."), Response("text", "{not json}") }
    \cup { Response("text", stringify(a)) : a \in AnalysisChoices }

\* Each of them with what analyzeCode makes of it.
InspectResults == { [response |-> r, result |-> analyzeCode(r)] : r \in InspectResponses }

\* File contents.  Null is the null getCurrentFileContent and parseFixes
\* return; no file and no response holds it as text.
Null == "<null>"

Falsy(c) == c = Null \/ c = ""

\* What anthropic.messages.create answers to a fix prompt: it rejects, or
\* resolves with no text block, or with text (fenced or not) that is empty,
\* echoes the original or changes it.
FixReplies ==
  { [kind |-> "error", fenced |-> FALSE, edit |-> "same"],
    [kind |-> "notext", fenced |-> FALSE, edit |-> "same"] }
    \cup { [kind |-> "text", fenced |-> f, edit |-> e] :
             f \in BOOLEAN, e \in {"empty", "same", "changed"} }

ReplyCode(reply, originalCode) ==
  CASE reply.edit = "empty"   -> ""
    [] reply.edit = "same"    -> originalCode
    [] reply.edit = "changed" -> originalCode \o "+fix"

FixResponse(reply, originalCode) ==
  [kind |-> reply.kind, fenced |-> reply.fenced, code |-> ReplyCode(reply, originalCode)]

\* parseFixes: the code inside the fence, or the whole text.
parseFixes(response) ==
  IF response.kind = "notext" THEN Null ELSE response.code

\* A filter that forgets the severity.
isAutoFixableAnySeverity(issue) ==
  issue.type \in {"style", "performance", "refactor"}

\* The filter of analyzeAndFixFile.
isAutoFixable(issue) ==
  issue.type \in {"style", "performance", "refactor"} /\ issue.severity # "high"

\* extractIssuesFromComments: the mock issue list.
extractIssuesFromComments ==
  << [filename |-> "example.js", type |-> "style", severity |-> "low"] >>

\* groupIssuesByFile: groups in order of first occurrence.
RECURSIVE groupIssuesByFile(_)
groupIssuesByFile(issues) ==
  IF issues = << >> THEN << >>
  ELSE LET f == issues[1].filename IN
       << [filename |-> f, issues |-> SelectSeq(issues, LAMBDA i : i.filename = f)] >>
         \o groupIssuesByFile(SelectSeq(issues, LAMBDA i : i.filename # f))

FileNames ==
  { FilePool[i].filename : i \in 1..Len(FilePool) }
    \cup { BulkName(i) : i \in 1..(maxFilesPerReview + 2) }
    \cup { "example.js" }

\* The file names of the pull requests that filterFiles drops: IsExcluded
\* tabulated over FileNames.
DroppedNames == { f \in FileNames : IsExcluded(f) }

\* filterFiles of a pull request's list, read from the table.
Filtered(fs) == SelectSeq(fs, LAMBDA f : f.filename \notin DroppedNames)

\* A write that appends to what the file holds.
writeFileAppends(d, filename, content) == [d EXCEPT ![filename] = @ \o content]

\* fs.writeFile(filePath, content, 'utf-8'): the file holds content.
writeFile(d, filename, content) == [d EXCEPT ![filename] = content]

\* The working directory before the run.
InitialDisk == [f \in FileNames |-> IF f = "docs/api.md" THEN "" ELSE "v1:" \o f]

\* The comments a fix run is started with.
MainComments == { "looks good", "@fixbot", "@FixBot fix this", "please @fixbot apply all" }

Words ==
  << "@fixbot", "@FixBot", "apply", "Apply", "fix", "all", "ALL", "please",
     "looks good", "this", "install", "@fix bot" >>

RECURSIVE Join(_)
Join(ws) ==
  IF Len(ws) = 0 THEN ""
  ELSE IF Len(ws) = 1 THEN Words[ws[1]]
  ELSE Words[ws[1]] \o " " \o Join(Tail(ws))

\* The comments the parser is run on: the documented examples, the empty
\* comment, and every sentence of at most MaxWords words.
Comments ==
  MainComments \cup { "", "@fixbot fix this" }
    \cup { Join(ws) : ws \in UNION { [1..n -> 1..Len(Words)] : n \in 1..MaxWords } }



\* ------------------------------------------------------------------- state
VARIABLES
  mode,          \* "review" (review-bot/index.js) or "fix" (fix-bot/index.js)
  pc,            \* where the run stands
  commentBody,   \* COMMENT_BODY
  fixRequest,    \* what parseFixRequest returned
  files,         \* what getPullRequestFiles returned
  work,          \* the files the loop iterates over
  idx,           \* position of the loop
  reviews,       \* ReviewBot: the reviews collected by the loop
  issuesByFile,  \* FixBot: the groups applySpecificFixes iterates over
  cur,           \* FixBot: the locals of fixFileIssues / analyzeAndFixFile
  fixedFiles,    \* FixBot: counter of the loop
  totalFixes,    \* FixBot: counter of the loop
  outcome,       \* FixBot: what the last fixFileIssues / analyzeAndFixFile did
  disk,          \* the working directory: file name -> content
  err,           \* the message of the exception the top-level catch received
  calls,         \* how often each external call was made
  posted,        \* comments the platform accepted, by kind
  postedReviews, \* reviews the platform accepted
  fixSummary,    \* the numbers of the accepted fix summary
  touched,       \* file names passed to analyzeCode / generateFixes / written,
                 \* and those whose processing raised (failed)
  env,           \* which of CLAUDE_API_KEY, GITHUB_TOKEN, PR_NUMBER are set
  exitCode,      \* what main passed to process.exit, NotExited before
  apiResponse,   \* analyzeCode on its own: what messages.create answered
  apiAnalysis,   \* analyzeCode on its own: what analyzeCode returned
  runs           \* the locals of the other runs that share the working
                 \* directory and the pull request, << >> for a run on its own

vars ==
  << runs, env, exitCode, apiResponse, apiAnalysis, mode, pc, commentBody, fixRequest, files, work, idx, reviews, issuesByFile,
     cur, fixedFiles, totalFixes, outcome, disk, err, calls, posted,
     postedReviews, fixSummary, touched >>

NoCalls ==
  [healthCheck |-> 0, getPullRequest |-> 0, getPullRequestFiles |-> 0,
   analyzeCode |-> 0, generateFixes |-> 0, readFile |-> 0, writeFile |-> 0,
   createReview |-> 0, createComment |-> 0]

NothingPosted == [issue |-> 0, notice |-> 0, summary |-> 0, error |-> 0]

NoCur == [filename |-> "", content |-> Null, issues |-> << >>, fixedContent |-> Null]

\* found: the issues analyzeCode returned; handed: the issues passed to
\* generateFixes; reply: how the API answered the fix prompt; gen: was
\* generateFixes called ("no"), did it throw ("threw") or return ("returned",
\* its value in fixedContent); wrote: did writeFile succeed; skip: which of
\* the early returns of analyzeAndFixFile was taken ("size", "content",
\* "language"), "" for none.
NoOutcome ==
  [filename |-> "", status |-> "", content |-> Null, skip |-> "",
   found |-> << >>, handed |-> << >>,
   reply |-> "", gen |-> "no", fixedContent |-> Null, wrote |-> FALSE,
   success |-> FALSE, fixesApplied |-> 0]

NoSummary == [fixedFiles |-> -1, totalFixes |-> -1, totalFiles |-> -1]

NothingTouched ==
  [inspected |-> {}, fixed |-> {}, written |-> {}, failed |-> {},
   attempts |-> << >>, writes |-> << >>]

Called(name) == [calls EXCEPT ![name] = @ + 1]

Posted(kind, ok) == IF ok THEN [posted EXCEPT ![kind] = @ + 1] ELSE posted

\* The file was passed to analyzeCode ("inspected") or generateFixes ("fixed");
\* raised: the call threw.
Touched(kind, name, raised) ==
  [touched EXCEPT ![kind] = @ \cup {name},
                  !.failed = IF raised THEN @ \cup {name} ELSE @]

\* Reading or writing the file threw.
Raised(name) == [touched EXCEPT !.failed = @ \cup {name}]

\* fs.writeFile(filePath, content) resolved: the file was written by the
\* at-th call of writeFile, with the content generateFixes made of what the run
\* had read and of the issues handed to it.
Wrote(name, read, handed, content) ==
  [touched EXCEPT !.written = @ \cup {name},
                  !.writes = Append(@, [filename |-> name, read |-> read,
                                        handed |-> Len(handed),
                                        content |-> content,
                                        at |-> calls.writeFile + 1])]

\* createComment was called with the comment built for an issue of a file.
Attempted(comment) == [touched EXCEPT !.attempts = Append(@, comment)]

NotExited == -1

\* The message of the error thrown after a failed health check.
HealthCheckError == "MCP connection health check failed"

\* The environment with every required variable set.
FullEnv == [apiKey |-> TRUE, token |-> TRUE, prNumber |-> TRUE]

Envs == [apiKey : BOOLEAN, token : BOOLEAN, prNumber : BOOLEAN]

NoResponse == Response("none", "")

Start(m, p, c) ==
  /\ runs = << >>
  /\ exitCode = NotExited
  /\ apiResponse = NoResponse
  /\ apiAnalysis = NoAnalysis
  /\ mode = m
  /\ pc = p
  /\ commentBody = c
  /\ fixRequest = NoFixRequest
  /\ work = << >>
  /\ idx = 1
  /\ reviews = << >>
  /\ issuesByFile = << >>
  /\ cur = NoCur
  /\ fixedFiles = 0
  /\ totalFixes = 0
  /\ outcome = NoOutcome
  /\ disk = InitialDisk
  /\ err = ""
  /\ posted = NothingPosted
  /\ postedReviews = << >>
  /\ fixSummary = NoSummary
  /\ touched = NothingTouched

Init ==
  /\ calls = NoCalls
  /\ env \in Envs
  /\ files = << >>
  /\ \/ Start("review", "r_main", "")
     \/ \E c \in MainComments : Start("fix", "f_main", c)

\* A constructor that does not look at PR_NUMBER.
constructorAcceptsNoPrNumber(e) == e.apiKey /\ e.token

\* new MCPClient(), new GitHubClient() and the PR_NUMBER check of the
\* constructors of ReviewBot and FixBot: true when none of them throws.
constructorAccepts(e) == e.apiKey /\ e.token /\ e.prNumber

\* main, lines 13-20: the run has returned and main calls process.exit(0)
\* (pc "done"), or main has caught an exception and calls process.exit(1)
\* (pc "failed").
Exit(code) ==
  /\ pc' = (IF code = 0 THEN "done" ELSE "failed")
  /\ exitCode' = code

\* The exit code once the action has set pc: 0 when the run has returned.
ExitWhenDone == exitCode' = (IF pc' = "done" THEN 0 ELSE exitCode)

\* A loop that is left after its first iteration.
forOfBreaks(i, n, body, after) == after

\* A loop that is never left.
forOfForever(i, n, body, after) == body

\* for (const x of list): where the run stands after iteration i of n.
forOf(i, n, body, after) == IF i = n THEN after ELSE body

\* A run that goes on whatever the health check said.
ifHealthyUnchecked(isHealthy, next, handler) == next

\* if (!isHealthy) throw new Error(...): where the run stands after the
\* health check, at its next statement or in the top-level catch.
ifHealthy(isHealthy, next, handler) == IF isHealthy THEN next ELSE handler

\* ------------------------------------------------------------- ReviewBot
\* review-bot/index.js main, lines 9-12 and 18-20: new ReviewBot(); a throwing
\* constructor is caught by main, which exits with 1.
RMain ==
  /\ pc = "r_main"
  /\ IF constructorAccepts(env)
     THEN pc' = "r_health" /\ exitCode' = exitCode
     ELSE Exit(1)
  /\ UNCHANGED << runs, env, apiResponse, apiAnalysis, mode, commentBody, fixRequest,
                  files, work, idx, reviews, issuesByFile, cur, fixedFiles,
                  totalFixes, outcome, disk, err, calls, posted, postedReviews,
                  fixSummary, touched >>

\* reviewPullRequest, lines 28-35: initialize and the health check.
RHealthCheck ==
  /\ pc = "r_health"
  /\ calls' = Called("healthCheck")
  /\ \E isHealthy \in BOOLEAN :
       /\ pc' = ifHealthy(isHealthy, "r_getPR", "r_error")
       /\ err' = IF isHealthy THEN err ELSE HealthCheckError
  /\ UNCHANGED << runs, env, exitCode, apiResponse, apiAnalysis, mode, commentBody, fixRequest, files, work, idx, reviews,
                  issuesByFile, cur, fixedFiles, totalFixes, outcome, disk,
                  posted, postedReviews, fixSummary, touched >>

\* reviewPullRequest, line 38.
RGetPullRequest ==
  /\ pc = "r_getPR"
  /\ calls' = Called("getPullRequest")
  /\ \E ok \in BOOLEAN :
       IF ok
       THEN pc' = "r_getFiles" /\ err' = err
       ELSE pc' = "r_error" /\ err' = "getPullRequest failed"
  /\ UNCHANGED << runs, env, exitCode, apiResponse, apiAnalysis, mode, commentBody, fixRequest, files, work, idx, reviews,
                  issuesByFile, cur, fixedFiles, totalFixes, outcome, disk,
                  posted, postedReviews, fixSummary, touched >>

\* A run that never finds the filtered list empty.
nothingToReviewNever(filteredFiles) == FALSE

\* reviewPullRequest, line 47: filteredFiles.length === 0
nothingToReview(filteredFiles) == Len(filteredFiles) = 0

\* reviewPullRequest, lines 41-53: fetch, filter, the empty case, the slice.
RGetFiles ==
  /\ pc = "r_getFiles"
  /\ calls' = Called("getPullRequestFiles")
  /\ \/ /\ pc' = "r_error"
        /\ err' = "getPullRequestFiles failed"
        /\ UNCHANGED << files, work >>
     \/ \E fs \in FileLists :
          /\ files' = fs
          /\ err' = err
          /\ LET filteredFiles == filterFiles(fs) IN
               IF nothingToReview(filteredFiles)
               THEN pc' = "r_notice" /\ work' = work
               ELSE pc' = "r_analyze" /\ work' = Slice(filteredFiles, maxFilesPerReview)
  /\ idx' = 1
  /\ UNCHANGED << runs, env, exitCode, apiResponse, apiAnalysis, mode, commentBody, fixRequest, reviews, issuesByFile, cur,
                  fixedFiles, totalFixes, outcome, disk, posted, postedReviews,
                  fixSummary, touched >>

\* postSummaryComment('No reviewable files found in this PR.') and return.
RPostNotice ==
  /\ pc = "r_notice"
  /\ calls' = Called("createComment")
  /\ \E ok \in BOOLEAN : posted' = Posted("notice", ok)
  /\ pc' = "done"
  /\ ExitWhenDone
  /\ UNCHANGED << runs, env, apiResponse, apiAnalysis, mode, commentBody, fixRequest, files, work, idx, reviews,
                  issuesByFile, cur, fixedFiles, totalFixes, outcome, disk, err,
                  postedReviews, fixSummary, touched >>

\* The content analyzeFile hands to analyzeCode, "" when it returns null first.
ReviewContent(file) ==
  IF file.additions + file.deletions > ReviewSizeLimit THEN ""
  ELSE IF file.status = "added" \/ file.status = "modified" THEN file.patch
  ELSE ""

\* analyzeFile's guards: true when it reaches analyzeCode.
analyzeFileCalls(file) == trim(ReviewContent(file)) # ""

\* One iteration of the loop of reviewPullRequest: analyzeFile(file).
RAnalyzeFile ==
  /\ pc = "r_analyze"
  /\ idx <= Len(work)
  /\ LET file == work[idx] IN
       IF ~analyzeFileCalls(file)
       THEN UNCHANGED << reviews, calls, touched >>
       ELSE /\ calls' = Called("analyzeCode")
            /\ \E answer \in InspectResults :
                 LET result == answer.result IN
                 /\ touched' = Touched("inspected", file.filename, result.threw)
                 /\ IF result.threw
                    THEN reviews' = reviews
                    ELSE reviews' = Append(reviews,
                           [file |-> file, analysis |-> result.value])
  /\ idx' = idx + 1
  /\ pc' = forOf(idx, Len(work), "r_analyze", "r_summary")
  /\ UNCHANGED << runs, env, exitCode, apiResponse, apiAnalysis, mode, commentBody, fixRequest, files, work, issuesByFile, cur,
                  fixedFiles, totalFixes, outcome, disk, err, posted,
                  postedReviews, fixSummary >>

RECURSIVE SumIssues(_)
SumIssues(rs) ==
  IF rs = << >> THEN 0 ELSE Len(rs[1].analysis.issues) + SumIssues(Tail(rs))

RECURSIVE SumHigh(_)
SumHigh(rs) ==
  IF rs = << >> THEN 0
  ELSE Len(SelectSeq(rs[1].analysis.issues, LAMBDA i : i.severity = "high"))
         + SumHigh(Tail(rs))

\* An assessment that looks at the number of issues first.
overallAssessmentCountFirst(totalIssues, highSeverityIssues) ==
  IF totalIssues > 5 THEN "NEEDS IMPROVEMENT"
  ELSE IF highSeverityIssues > 0 THEN "CHANGES REQUESTED"
  ELSE IF totalIssues > 0 THEN "APPROVED WITH SUGGESTIONS"
  ELSE "APPROVED"

\* The assessment generateSummary chooses.
overallAssessment(totalIssues, highSeverityIssues) ==
  IF highSeverityIssues > 0 THEN "CHANGES REQUESTED"
  ELSE IF totalIssues > 5 THEN "NEEDS IMPROVEMENT"
  ELSE IF totalIssues > 0 THEN "APPROVED WITH SUGGESTIONS"
  ELSE "APPROVED"

\* An event that requests changes whatever was found.
reviewEventStrict(highSeverityIssues) == "REQUEST_CHANGES"

\* The event generateSummary passes to createReview.
reviewEvent(highSeverityIssues) ==
  IF highSeverityIssues > 0 THEN "REQUEST_CHANGES" ELSE "COMMENT"

\* One comment per reviewed file that has issues, not one per issue.
RECURSIVE IssueCommentsBatched(_)
IssueCommentsBatched(rs) ==
  IF rs = << >> THEN << >>
  ELSE (IF Len(rs[1].analysis.issues) = 0 THEN << >>
        ELSE << [filename |-> rs[1].file.filename, issue |-> rs[1].analysis.issues[1]] >>)
         \o IssueCommentsBatched(Tail(rs))

\* The comments of postFileComments from the last issue of the last review to
\* the first issue of the first.
RECURSIVE IssueCommentsLastFirst(_)
IssueCommentsLastFirst(rs) ==
  IF rs = << >> THEN << >>
  ELSE IssueCommentsLastFirst(Tail(rs))
         \o [i \in 1..Len(rs[1].analysis.issues) |->
               [filename |-> rs[1].file.filename,
                issue |-> rs[1].analysis.issues[Len(rs[1].analysis.issues) + 1 - i]]]

\* The comments postFileComments posts, in its order.
RECURSIVE IssueComments(_)
IssueComments(rs) ==
  IF rs = << >> THEN << >>
  ELSE [i \in 1..Len(rs[1].analysis.issues) |->
          [filename |-> rs[1].file.filename, issue |-> rs[1].analysis.issues[i]]]
         \o IssueComments(Tail(rs))

\* generateSummary: the review is built and posted; a failure is logged only.
RGenerateSummary ==
  /\ pc = "r_summary"
  /\ calls' = Called("createReview")
  /\ LET totalIssues == SumIssues(reviews)
         highSeverityIssues == SumHigh(reviews)
     IN \E ok \in BOOLEAN :
          postedReviews' =
            IF ok
            THEN Append(postedReviews,
                   [assessment |-> overallAssessment(totalIssues, highSeverityIssues),
                    event |-> reviewEvent(highSeverityIssues),
                    filesAnalyzed |-> Len(reviews),
                    totalIssues |-> totalIssues,
                    highSeverityIssues |-> highSeverityIssues])
            ELSE postedReviews
  /\ idx' = 1
  /\ pc' = IF IssueComments(reviews) = << >> THEN "done" ELSE "r_comments"
  /\ ExitWhenDone
  /\ UNCHANGED << runs, env, apiResponse, apiAnalysis, mode, commentBody, fixRequest, files, work, reviews,
                  issuesByFile, cur, fixedFiles, totalFixes, outcome, disk, err,
                  posted, fixSummary, touched >>

\* postFileComments: one createComment per issue; a failure is logged only.
RPostFileComment ==
  /\ pc = "r_comments"
  /\ idx <= Len(IssueComments(reviews))
  /\ calls' = Called("createComment")
  /\ touched' = Attempted(IssueComments(reviews)[idx])
  /\ \E ok \in BOOLEAN : posted' = Posted("issue", ok)
  /\ idx' = idx + 1
  /\ pc' = IF idx = Len(IssueComments(reviews)) THEN "done" ELSE "r_comments"
  /\ ExitWhenDone
  /\ UNCHANGED << runs, env, apiResponse, apiAnalysis, mode, commentBody, fixRequest, files, work, reviews,
                  issuesByFile, cur, fixedFiles, totalFixes, outcome, disk, err,
                  postedReviews, fixSummary >>

\* The top-level catch: postErrorComment(error.message).
RPostErrorComment ==
  /\ pc = "r_error"
  /\ calls' = Called("createComment")
  /\ \E ok \in BOOLEAN : posted' = Posted("error", ok)
  /\ pc' = "done"
  /\ ExitWhenDone
  /\ UNCHANGED << runs, env, apiResponse, apiAnalysis, mode, commentBody, fixRequest, files, work, idx, reviews,
                  issuesByFile, cur, fixedFiles, totalFixes, outcome, disk, err,
                  postedReviews, fixSummary, touched >>

ReviewNext ==
  \/ RMain
  \/ RHealthCheck
  \/ RGetPullRequest
  \/ RGetFiles
  \/ RPostNotice
  \/ RAnalyzeFile
  \/ RGenerateSummary
  \/ RPostFileComment
  \/ RPostErrorComment


\* ---------------------------------------------------------------- FixBot
\* fix-bot/index.js main, lines 9-12 and 18-20: new FixBot(); a throwing
\* constructor is caught by main, which exits with 1.
FMain ==
  /\ pc = "f_main"
  /\ IF constructorAccepts(env)
     THEN pc' = "f_health" /\ exitCode' = exitCode
     ELSE Exit(1)
  /\ UNCHANGED << runs, env, apiResponse, apiAnalysis, mode, commentBody, fixRequest,
                  files, work, idx, reviews, issuesByFile, cur, fixedFiles,
                  totalFixes, outcome, disk, err, calls, posted, postedReviews,
                  fixSummary, touched >>

\* processFixRequest, lines 31-38: initialize and the health check.
FHealthCheck ==
  /\ pc = "f_health"
  /\ calls' = Called("healthCheck")
  /\ \E isHealthy \in BOOLEAN :
       /\ pc' = ifHealthy(isHealthy, "f_parse", "f_error")
       /\ err' = IF isHealthy THEN err ELSE HealthCheckError
  /\ UNCHANGED << runs, env, exitCode, apiResponse, apiAnalysis, mode, commentBody, fixRequest, files, work, idx, reviews,
                  issuesByFile, cur, fixedFiles, totalFixes, outcome, disk,
                  posted, postedReviews, fixSummary, touched >>

\* processFixRequest, lines 41-46: parse the comment; no request, no action.
FParse ==
  /\ pc = "f_parse"
  /\ fixRequest' = parseFixRequest(commentBody)
  /\ pc' = IF fixRequest'.shouldFix THEN "f_getPR" ELSE "done"
  /\ ExitWhenDone
  /\ UNCHANGED << runs, env, apiResponse, apiAnalysis, mode, commentBody, files, work, idx, reviews, issuesByFile,
                  cur, fixedFiles, totalFixes, outcome, disk, err, calls, posted,
                  postedReviews, fixSummary, touched >>

\* processFixRequest, lines 51-58: fetch the pull request and dispatch.
FGetPullRequest ==
  /\ pc = "f_getPR"
  /\ calls' = Called("getPullRequest")
  /\ \E ok \in BOOLEAN :
       IF ~ok THEN pc' = "f_error" /\ err' = "getPullRequest failed"
       ELSE /\ err' = err
            /\ pc' = CASE fixRequest.type = "specific" -> "s_start"
                       [] fixRequest.type = "general"  -> "g_getFiles"
                       [] OTHER                        -> "done"
  /\ ExitWhenDone
  /\ UNCHANGED << runs, env, apiResponse, apiAnalysis, mode, commentBody, fixRequest, files, work, idx, reviews,
                  issuesByFile, cur, fixedFiles, totalFixes, outcome, disk,
                  posted, postedReviews, fixSummary, touched >>

FileOutcome(filename, status) ==
  [NoOutcome EXCEPT !.filename = filename, !.status = status]

\* applySpecificFixes, lines 112-125: the issues and their groups.
SStart ==
  /\ pc = "s_start"
  /\ LET issues == extractIssuesFromComments IN
       IF Len(issues) = 0
       THEN pc' = "s_notice" /\ issuesByFile' = issuesByFile
       ELSE pc' = "s_read" /\ issuesByFile' = groupIssuesByFile(issues)
  /\ idx' = 1
  /\ fixedFiles' = 0
  /\ totalFixes' = 0
  /\ UNCHANGED << runs, env, exitCode, apiResponse, apiAnalysis, mode, commentBody, fixRequest, files, work, reviews, cur,
                  outcome, disk, err, calls, posted, postedReviews, fixSummary,
                  touched >>

\* A result that counts one fix per file.
fixesAppliedOne(issues) == 1

\* fixesApplied: issues.length (line 250), fixableIssues.length (line 319).
fixesApplied(issues) == Len(issues)

\* fixFileIssues, lines 222-237: read the file.
SRead ==
  /\ pc = "s_read"
  /\ idx <= Len(issuesByFile)
  /\ calls' = Called("readFile")
  /\ LET group == issuesByFile[idx] IN
     \E readOk \in BOOLEAN :
       LET currentContent == IF readOk THEN disk[group.filename] ELSE Null IN
       /\ touched' = IF readOk THEN touched ELSE Raised(group.filename)
       /\ IF Falsy(currentContent)
          THEN /\ outcome' = [FileOutcome(group.filename, "") EXCEPT !.content = currentContent]
               /\ cur' = NoCur
               /\ idx' = idx + 1
               /\ pc' = forOf(idx, Len(issuesByFile), "s_read", "s_summary")
          ELSE /\ cur' = [NoCur EXCEPT !.filename = group.filename,
                                       !.content = currentContent,
                                       !.issues = group.issues]
               /\ pc' = "s_genfix"
               /\ UNCHANGED << outcome, idx >>
  /\ UNCHANGED << runs, env, exitCode, apiResponse, apiAnalysis, mode, commentBody, fixRequest, files, work, reviews,
                  issuesByFile, fixedFiles, totalFixes, disk, err, posted,
                  postedReviews, fixSummary >>

\* A generateFixes that returns null when the API call fails.
generateFixesNullOnError(response) ==
  IF response.kind = "error" THEN [threw |-> FALSE, value |-> Null]
  ELSE [threw |-> FALSE, value |-> parseFixes(response)]

\* generateFixes: rethrows when the API call fails, else parseFixes.
generateFixes(response) ==
  IF response.kind = "error" THEN [threw |-> TRUE, value |-> Null]
  ELSE [threw |-> FALSE, value |-> parseFixes(response)]

\* A check that writes whatever came back.
shouldWriteAlways(fixedContent, content) == fixedContent # Null

\* The check both fix paths make on what generateFixes returned.
shouldWrite(fixedContent, content) == ~(Falsy(fixedContent) \/ fixedContent = content)

\* fixFileIssues, lines 239-244: generate the fix and compare.
SGenFix ==
  /\ pc = "s_genfix"
  /\ calls' = Called("generateFixes")
  /\ \E reply \in FixReplies :
       LET result == generateFixes(FixResponse(reply, cur.content))
           base == [FileOutcome(cur.filename, "") EXCEPT
                      !.content = cur.content, !.handed = cur.issues,
                      !.reply = reply.kind]
       IN /\ touched' = Touched("fixed", cur.filename, result.threw)
          /\ IF result.threw \/ ~shouldWrite(result.value, cur.content)
             THEN /\ outcome' = [base EXCEPT
                                   !.gen = IF result.threw THEN "threw" ELSE "returned",
                                   !.fixedContent = result.value]
                  /\ cur' = NoCur
                  /\ idx' = idx + 1
                  /\ pc' = forOf(idx, Len(issuesByFile), "s_read", "s_summary")
             ELSE /\ cur' = [cur EXCEPT !.fixedContent = result.value]
                  /\ pc' = "s_write"
                  /\ UNCHANGED << outcome, idx >>
  /\ UNCHANGED << runs, env, exitCode, apiResponse, apiAnalysis, mode, commentBody, fixRequest, files, work, reviews,
                  issuesByFile, fixedFiles, totalFixes, disk, err, posted,
                  postedReviews, fixSummary >>

\* fixFileIssues, lines 247-255: write the file and report.
SWrite ==
  /\ pc = "s_write"
  /\ calls' = Called("writeFile")
  /\ \E ok \in BOOLEAN :
       LET base == [FileOutcome(cur.filename, "") EXCEPT
                      !.content = cur.content, !.handed = cur.issues,
                      !.reply = "text", !.gen = "returned",
                      !.fixedContent = cur.fixedContent]
       IN IF ok
          THEN /\ disk' = writeFile(disk, cur.filename, cur.fixedContent)
               /\ touched' = Wrote(cur.filename, cur.content, base.handed,
                                   cur.fixedContent)
               /\ outcome' = [base EXCEPT !.wrote = TRUE, !.success = TRUE,
                                          !.fixesApplied = fixesApplied(cur.issues)]
               /\ fixedFiles' = fixedFiles + 1
               /\ totalFixes' = totalFixes + fixesApplied(cur.issues)
          ELSE /\ outcome' = base
               /\ touched' = Raised(cur.filename)
               /\ UNCHANGED << disk, fixedFiles, totalFixes >>
  /\ cur' = NoCur
  /\ idx' = idx + 1
  /\ pc' = forOf(idx, Len(issuesByFile), "s_read", "s_summary")
  /\ UNCHANGED << runs, env, exitCode, apiResponse, apiAnalysis, mode, commentBody, fixRequest, files, work, reviews,
                  issuesByFile, err, posted, postedReviews, fixSummary >>

\* applySpecificFixes, line 137: postFixSummary; a failure is logged only.
SPostSummary ==
  /\ pc = "s_summary"
  /\ calls' = Called("createComment")
  /\ \E ok \in BOOLEAN :
       /\ posted' = Posted("summary", ok)
       /\ fixSummary' = IF ok
                        THEN [fixedFiles |-> fixedFiles, totalFixes |-> totalFixes,
                              totalFiles |-> Len(issuesByFile)]
                        ELSE fixSummary
  /\ pc' = "done"
  /\ ExitWhenDone
  /\ UNCHANGED << runs, env, apiResponse, apiAnalysis, mode, commentBody, fixRequest, files, work, idx, reviews,
                  issuesByFile, cur, fixedFiles, totalFixes, outcome, disk, err,
                  postedReviews, touched >>

\* applyGeneralFixes, lines 153-161: fetch, filter and slice.
GGetFiles ==
  /\ pc = "g_getFiles"
  /\ calls' = Called("getPullRequestFiles")
  /\ \/ /\ pc' = "f_error"
        /\ err' = "getPullRequestFiles failed"
        /\ UNCHANGED << files, work >>
     \/ \E fs \in FileLists :
          /\ files' = fs
          /\ err' = err
          /\ LET filteredFiles == filterFiles(fs) IN
               work' = Slice(filteredFiles, maxChangesPerRun)
          /\ pc' = IF Len(work') = 0 THEN "g_summary" ELSE "g_read"
  /\ idx' = 1
  /\ fixedFiles' = 0
  /\ totalFixes' = 0
  /\ UNCHANGED << runs, env, exitCode, apiResponse, apiAnalysis, mode, commentBody, fixRequest, reviews, issuesByFile, cur,
                  outcome, disk, posted, postedReviews, fixSummary, touched >>

\* A size check that also refuses a file at the limit.
tooLargeToFixAtLimit(file) == file.additions + file.deletions >= FixSizeLimit

\* analyzeAndFixFile, line 264.
tooLargeToFix(file) == file.additions + file.deletions > FixSizeLimit

\* analyzeAndFixFile, lines 263-280: the size check, the read, the language.
GRead ==
  /\ pc = "g_read"
  /\ idx <= Len(work)
  /\ LET file == work[idx] IN
       IF tooLargeToFix(file)
       THEN /\ outcome' = [FileOutcome(file.filename, file.status) EXCEPT
                             !.skip = "size"]
            /\ cur' = NoCur
            /\ idx' = idx + 1
            /\ pc' = forOf(idx, Len(work), "g_read", "g_summary")
            /\ UNCHANGED << calls, touched >>
       ELSE /\ calls' = Called("readFile")
            /\ \E readOk \in BOOLEAN :
                 LET content == IF readOk THEN disk[file.filename] ELSE Null IN
                 /\ touched' = IF readOk THEN touched ELSE Raised(file.filename)
                 /\ IF Falsy(content) \/ detectLanguage(file.filename) \notin supportedLanguages
                    THEN /\ outcome' = [FileOutcome(file.filename, file.status) EXCEPT
                                          !.content = content,
                                          !.skip = IF Falsy(content) THEN "content"
                                                   ELSE "language"]
                         /\ cur' = NoCur
                         /\ idx' = idx + 1
                         /\ pc' = forOf(idx, Len(work), "g_read", "g_summary")
                    ELSE /\ cur' = [NoCur EXCEPT !.filename = file.filename,
                                                 !.content = content]
                         /\ pc' = "g_inspect"
                         /\ UNCHANGED << outcome, idx >>
  /\ UNCHANGED << runs, env, exitCode, apiResponse, apiAnalysis, mode, commentBody, fixRequest, files, work, reviews,
                  issuesByFile, fixedFiles, totalFixes, disk, err, posted,
                  postedReviews, fixSummary >>

\* analyzeAndFixFile, lines 297-300: the issues FixBot handles.
fixableIssues(issues) == SelectSeq(issues, isAutoFixable)

\* analyzeAndFixFile, lines 289-305: inspect and keep the fixable issues.
GInspect ==
  /\ pc = "g_inspect"
  /\ calls' = Called("analyzeCode")
  /\ \E answer \in InspectResults :
       LET file == work[idx]
           result == answer.result
           found == IF result.threw THEN << >> ELSE result.value.issues
       IN /\ touched' = Touched("inspected", cur.filename, result.threw)
          /\ IF result.threw \/ Len(found) = 0 \/ Len(fixableIssues(found)) = 0
             THEN /\ outcome' = [FileOutcome(file.filename, file.status) EXCEPT
                                   !.content = cur.content, !.found = found]
                  /\ cur' = NoCur
                  /\ idx' = idx + 1
                  /\ pc' = forOf(idx, Len(work), "g_read", "g_summary")
             ELSE /\ cur' = [cur EXCEPT !.issues = fixableIssues(found)]
                  /\ outcome' = [FileOutcome(file.filename, file.status) EXCEPT
                                   !.content = cur.content, !.found = found]
                  /\ pc' = "g_genfix"
                  /\ idx' = idx
  /\ UNCHANGED << runs, env, exitCode, apiResponse, apiAnalysis, mode, commentBody, fixRequest, files, work, reviews,
                  issuesByFile, fixedFiles, totalFixes, disk, err, posted,
                  postedReviews, fixSummary >>

\* analyzeAndFixFile, lines 308-313: generate the fix and compare.
GGenFix ==
  /\ pc = "g_genfix"
  /\ calls' = Called("generateFixes")
  /\ \E reply \in FixReplies :
       LET result == generateFixes(FixResponse(reply, cur.content))
           base == [outcome EXCEPT !.handed = cur.issues, !.reply = reply.kind,
                      !.gen = IF result.threw THEN "threw" ELSE "returned",
                      !.fixedContent = result.value]
       IN /\ outcome' = base
          /\ touched' = Touched("fixed", cur.filename, result.threw)
          /\ IF result.threw \/ ~shouldWrite(result.value, cur.content)
             THEN /\ cur' = NoCur
                  /\ idx' = idx + 1
                  /\ pc' = forOf(idx, Len(work), "g_read", "g_summary")
             ELSE /\ cur' = [cur EXCEPT !.fixedContent = result.value]
                  /\ pc' = "g_write"
                  /\ idx' = idx
  /\ UNCHANGED << runs, env, exitCode, apiResponse, apiAnalysis, mode, commentBody, fixRequest, files, work, reviews,
                  issuesByFile, fixedFiles, totalFixes, disk, err, posted,
                  postedReviews, fixSummary >>

\* analyzeAndFixFile, lines 316-324: write the file and report.
GWrite ==
  /\ pc = "g_write"
  /\ calls' = Called("writeFile")
  /\ \E ok \in BOOLEAN :
       IF ok
       THEN /\ disk' = writeFile(disk, cur.filename, cur.fixedContent)
            /\ touched' = Wrote(cur.filename, cur.content, outcome.handed,
                                cur.fixedContent)
            /\ outcome' = [outcome EXCEPT !.wrote = TRUE, !.success = TRUE,
                                          !.fixesApplied = fixesApplied(cur.issues)]
            /\ fixedFiles' = fixedFiles + 1
            /\ totalFixes' = totalFixes + fixesApplied(cur.issues)
       ELSE /\ touched' = Raised(cur.filename)
            /\ UNCHANGED << disk, outcome, fixedFiles, totalFixes >>
  /\ cur' = NoCur
  /\ idx' = idx + 1
  /\ pc' = forOf(idx, Len(work), "g_read", "g_summary")
  /\ UNCHANGED << runs, env, exitCode, apiResponse, apiAnalysis, mode, commentBody, fixRequest, files, work, reviews,
                  issuesByFile, err, posted, postedReviews, fixSummary >>

\* applyGeneralFixes, line 171: postFixSummary; a failure is logged only.
GPostSummary ==
  /\ pc = "g_summary"
  /\ calls' = Called("createComment")
  /\ \E ok \in BOOLEAN :
       /\ posted' = Posted("summary", ok)
       /\ fixSummary' = IF ok
                        THEN [fixedFiles |-> fixedFiles, totalFixes |-> totalFixes,
                              totalFiles |-> Len(Filtered(files))]
                        ELSE fixSummary
  /\ pc' = "done"
  /\ ExitWhenDone
  /\ UNCHANGED << runs, env, apiResponse, apiAnalysis, mode, commentBody, fixRequest, files, work, idx, reviews,
                  issuesByFile, cur, fixedFiles, totalFixes, outcome, disk, err,
                  postedReviews, touched >>

\* The top-level catch: postErrorComment(error.message).
FPostErrorComment ==
  /\ pc = "f_error"
  /\ calls' = Called("createComment")
  /\ \E ok \in BOOLEAN : posted' = Posted("error", ok)
  /\ pc' = "done"
  /\ ExitWhenDone
  /\ UNCHANGED << runs, env, apiResponse, apiAnalysis, mode, commentBody, fixRequest, files, work, idx, reviews,
                  issuesByFile, cur, fixedFiles, totalFixes, outcome, disk, err,
                  postedReviews, fixSummary, touched >>

FixNext ==
  \/ FMain
  \/ FHealthCheck
  \/ FParse
  \/ FGetPullRequest
  \/ SStart
  \/ SRead
  \/ SGenFix
  \/ SWrite
  \/ SPostSummary
  \/ GGetFiles
  \/ GRead
  \/ GInspect
  \/ GGenFix
  \/ GWrite
  \/ GPostSummary
  \/ FPostErrorComment

Next == ReviewNext \/ FixNext

Spec == Init /\ [][Next]_vars

\* Every await settles: the call returns or fails, and the run takes its next
\* step.
LiveSpec == Spec /\ WF_vars(Next)

\* ------------------------------------------- two fix runs at the same time
\* Two "@fixbot apply all" comments on one pull request start two FixBot
\* processes in the same working directory.  Each runs applyGeneralFixes as
\* above; what a process holds in its own memory is kept in runs while the
\* other process takes its steps, and the working directory and the pull
\* request are common to both.
Locals ==
  [mode |-> mode, pc |-> pc, commentBody |-> commentBody,
   fixRequest |-> fixRequest, files |-> files, work |-> work, idx |-> idx,
   reviews |-> reviews, issuesByFile |-> issuesByFile, cur |-> cur,
   fixedFiles |-> fixedFiles, totalFixes |-> totalFixes, outcome |-> outcome,
   err |-> err, fixSummary |-> fixSummary, touched |-> touched,
   exitCode |-> exitCode]

\* The lists of changed files of the pull request the two runs work on.
RaceLists ==
  { << FilePool[1] >>, << FilePool[3], FilePool[1] >> }

RaceComment == "please @fixbot apply all"

\* Both processes have passed the health check, parsed the comment and
\* fetched the pull request and its files (processFixRequest lines 32-57,
\* applyGeneralFixes lines 153-159); neither has entered the loop.
RaceInit ==
  /\ env = FullEnv
  /\ apiResponse = NoResponse
  /\ apiAnalysis = NoAnalysis
  /\ calls = [NoCalls EXCEPT !.healthCheck = 2, !.getPullRequest = 2,
                             !.getPullRequestFiles = 2]
  /\ disk = InitialDisk
  /\ posted = NothingPosted
  /\ postedReviews = << >>
  /\ mode = "fix"
  /\ commentBody = RaceComment
  /\ fixRequest = parseFixRequest(RaceComment)
  /\ files \in RaceLists
  /\ work = Slice(filterFiles(files), maxChangesPerRun)
  /\ pc = "g_read"
  /\ idx = 1
  /\ reviews = << >>
  /\ issuesByFile = << >>
  /\ cur = NoCur
  /\ fixedFiles = 0
  /\ totalFixes = 0
  /\ outcome = NoOutcome
  /\ err = ""
  /\ fixSummary = NoSummary
  /\ touched = NothingTouched
  /\ exitCode = NotExited
  /\ runs = << Locals >>

\* The process that was taking steps waits for a call to settle and the other
\* one, which has not ended, takes the next steps.
Switch ==
  /\ runs # << >>
  /\ runs[1].pc \notin {"done", "failed"}
  /\ runs' = << Locals >>
  /\ mode' = runs[1].mode
  /\ pc' = runs[1].pc
  /\ commentBody' = runs[1].commentBody
  /\ fixRequest' = runs[1].fixRequest
  /\ files' = runs[1].files
  /\ work' = runs[1].work
  /\ idx' = runs[1].idx
  /\ reviews' = runs[1].reviews
  /\ issuesByFile' = runs[1].issuesByFile
  /\ cur' = runs[1].cur
  /\ fixedFiles' = runs[1].fixedFiles
  /\ totalFixes' = runs[1].totalFixes
  /\ outcome' = runs[1].outcome
  /\ err' = runs[1].err
  /\ fixSummary' = runs[1].fixSummary
  /\ touched' = runs[1].touched
  /\ exitCode' = runs[1].exitCode
  /\ UNCHANGED << env, apiResponse, apiAnalysis, disk, calls, posted,
                  postedReviews >>

\* A step of the process that is taking steps.
RaceStep ==
  \/ GRead
  \/ GInspect
  \/ GGenFix
  \/ GWrite
  \/ GPostSummary

RaceNext == RaceStep \/ Switch

RaceSpec == RaceInit /\ [][RaceNext]_vars

\* Every await of either process settles, and a process that has not ended
\* gets its turn.
RaceLiveSpec == RaceSpec /\ WF_vars(RaceStep) /\ WF_vars(Switch)

\* ------------------------------------------- the trigger parser on its own
\* A fix run that has passed its health check, about to parse its comment.
ParseInit ==
  /\ calls = [NoCalls EXCEPT !.healthCheck = 1]
  /\ env = FullEnv
  /\ files = << >>
  /\ \E c \in Comments : Start("fix", "f_parse", c)

ParseNext == FParse

ParseSpec == ParseInit /\ [][ParseNext]_vars

\* ---------------------------------------- the artifact selector on its own
\* Paths that meet the exclude patterns in different ways.
PathPool ==
  << "src/app.js", "dist/bundle.js", "dist/css/site.css",
     "node_modules/x/index.js", "build/out.o", "jq.min.js", "lib/jq.min.js",
     "site.min.css", "package-lock.json", "yarn.lock", "redist/x.py",
     "src/admin_js/x.py", "yarn.lock.md", "docs/dist.md" >>

\* The lists filterFiles is run on: sub-lists of PathPool.
PathLists ==
  { [i \in 1..Cardinality(S) |->
       Artifact(PathPool[SortedSeq(S)[i]], "modified", 1, 1, "@@ -1 +1 @@")] :
      S \in { T \in SUBSET (1..Len(PathPool)) : Cardinality(T) <= MaxFiles } }

\* A file list as pulls.listFiles returned it, about to be filtered.
SelectInit ==
  /\ calls = [NoCalls EXCEPT !.getPullRequestFiles = 1]
  /\ env = FullEnv
  /\ files \in PathLists
  /\ Start("select", "select", "")

\* const filteredFiles = this.githubClient.filterFiles(files)
SelectFiles ==
  /\ pc = "select"
  /\ work' = filterFiles(files)
  /\ pc' = "selected"
  /\ UNCHANGED << runs, env, exitCode, apiResponse, apiAnalysis, mode, commentBody,
                  fixRequest, files, idx, reviews, issuesByFile, cur, fixedFiles,
                  totalFixes, outcome, disk, err, calls, posted, postedReviews,
                  fixSummary, touched >>

SelectNext == SelectFiles

SelectSpec == SelectInit /\ [][SelectNext]_vars

\* ------------------------------------------------- analyzeCode on its own
RECURSIVE Repeat(_, _)
Repeat(str, n) == IF n = 0 THEN "" ELSE str \o Repeat(str, n - 1)

\* Prose of more than 200 characters.
LongProse == Repeat("The change reads well overall. ", 8)

ProseBefore == { "", "Here is my review: ", "Note {draft}: ", LongProse }

ProseAfter == { "", " Hope this helps.", " (see {docs})" }

\* Nothing, braces that are not JSON, or a JSON analysis object.
ResponseCores == { "", "{not json}" } \cup { stringify(a) : a \in AnalysisChoices }

\* The responses analyzeCode is run on.
AllInspectResponses ==
  { Response("error", ""), Response("notext", "") }
    \cup { Response("text", b \o c \o a) :
             b \in ProseBefore, c \in ResponseCores, a \in ProseAfter }

\* messages.create has answered; analyzeCode is about to handle the answer.
InspectInit ==
  /\ runs = << >>
  /\ calls = [NoCalls EXCEPT !.analyzeCode = 1]
  /\ env = FullEnv
  /\ files = << >>
  /\ exitCode = NotExited
  /\ apiResponse \in AllInspectResponses
  /\ apiAnalysis = NoAnalysis
  /\ mode = "inspect"
  /\ pc = "inspect"
  /\ commentBody = ""
  /\ fixRequest = NoFixRequest
  /\ work = << >>
  /\ idx = 1
  /\ reviews = << >>
  /\ issuesByFile = << >>
  /\ cur = NoCur
  /\ fixedFiles = 0
  /\ totalFixes = 0
  /\ outcome = NoOutcome
  /\ disk = InitialDisk
  /\ err = ""
  /\ posted = NothingPosted
  /\ postedReviews = << >>
  /\ fixSummary = NoSummary
  /\ touched = NothingTouched

\* analyzeCode, lines 62-67: return this.parseResponse(response), or rethrow.
AnalyzeCode ==
  /\ pc = "inspect"
  /\ LET result == analyzeCode(apiResponse) IN
       IF result.threw
       THEN pc' = "threw" /\ apiAnalysis' = apiAnalysis
       ELSE pc' = "returned" /\ apiAnalysis' = result.value
  /\ UNCHANGED << runs, env, exitCode, apiResponse, mode, commentBody, fixRequest,
                  files, work, idx, reviews, issuesByFile, cur, fixedFiles,
                  totalFixes, outcome, disk, err, calls, posted, postedReviews,
                  fixSummary, touched >>

InspectNext == AnalyzeCode

InspectSpec == InspectInit /\ [][InspectNext]_vars


\* ================================================================ claims
\* Vocabulary of the specification: intent none / targeted / blanket is the
\* code's shouldFix = false / type 'specific' / type 'general'.
Intent(request) ==
  IF ~request.shouldFix THEN "none"
  ELSE IF request.type = "general" THEN "blanket" ELSE "targeted"

HasMention(c) == includes(toLowerCase(c), MentionToken)

\* The comment, lowercased, with every mention token blanked out.
WithoutMention(c) == ReplaceAll(toLowerCase(c), MentionToken, " ")

HasKeyword(text) == includes(text, "apply") \/ includes(text, "fix")

Parsed ==
  /\ mode = "fix"
  /\ pc \notin {"f_main", "f_health", "f_parse", "f_error"}
  /\ exitCode # 1

TerminalReports == Len(postedReviews) + posted.summary + posted.notice + posted.error

CommentsPosted == posted.issue + posted.summary + posted.notice + posted.error

EveryCommentPosted == calls.createComment = CommentsPosted

EveryPostSucceeded == EveryCommentPosted /\ calls.createReview = Len(postedReviews)

InScopeOfReport == mode = "review" \/ HasMention(commentBody)

\* C1: every review run and every fix run other than one of intent none ends
\* having posted exactly one terminal report (a review, a summary or notice, or
\* an error comment), never more than one on the way.  Stated here for the runs
\* in which every createComment call succeeds, which the claim covers.
C1_OneTerminalReport ==
  /\ TerminalReports <= 1
  /\ (pc = "done" /\ InScopeOfReport /\ EveryCommentPosted) => TerminalReports = 1

\* C2: a comment that holds the mention token and no separate "apply" or "fix"
\* keyword parses to intent blanket with scope "suggested".
C2_BareMentionIsSuggested ==
  (Parsed /\ HasMention(commentBody) /\ ~HasKeyword(WithoutMention(commentBody)))
    => (Intent(fixRequest) = "blanket" /\ fixRequest.scope = "suggested")

\* C3: after lowercasing, no mention token gives intent none; the token with
\* "apply" or "fix" and "all" gives blanket/"all"; the token with "apply" or
\* "fix" and no "all" gives targeted/"targeted"; the three documented examples
\* parse as documented.
C3_ParserClassifies ==
  Parsed =>
    LET n == toLowerCase(commentBody) IN
    /\ ~includes(n, "@fixbot") => Intent(fixRequest) = "none"
    /\ (includes(n, "@fixbot") /\ HasKeyword(n) /\ includes(n, "all"))
         => (Intent(fixRequest) = "blanket" /\ fixRequest.scope = "all")
    /\ (includes(n, "@fixbot") /\ HasKeyword(n) /\ ~includes(n, "all"))
         => (Intent(fixRequest) = "targeted" /\ fixRequest.scope = "targeted")
    /\ commentBody = "please @fixbot apply all"
         => (Intent(fixRequest) = "blanket" /\ fixRequest.scope = "all")
    /\ commentBody = "@fixbot fix this"
         => (Intent(fixRequest) = "targeted" /\ fixRequest.scope = "targeted")
    /\ commentBody = "looks good" => Intent(fixRequest) = "none"

C3_Witness ==
  /\ Parsed
  /\ commentBody = "please @fixbot apply all"
  /\ Intent(fixRequest) = "blanket"
  /\ fixRequest.scope = "all"

\* C4: a fix run whose comment does not hold the mention token posts no
\* comment, fetches neither the pull request nor its files, calls neither
\* analyzeCode nor generateFixes and writes no file.
C4_NoMentionIsSilent ==
  (mode = "fix" /\ ~HasMention(commentBody)) =>
    /\ CommentsPosted = 0
    /\ postedReviews = << >>
    /\ calls.getPullRequest = 0
    /\ calls.getPullRequestFiles = 0
    /\ calls.analyzeCode = 0
    /\ calls.generateFixes = 0
    /\ calls.writeFile = 0
    /\ disk = InitialDisk

\* C5: in both fix paths, when generateFixes returns null or the content that
\* was read, the file is not written and the outcome is the failed one
\* (success false, no fixes applied); a write is attempted, and a file
\* written, only with generated content that is not null and differs from the
\* content read.
C5_UnchangedIsNotWritten ==
  /\ (outcome.gen = "returned"
        /\ (outcome.fixedContent = Null \/ outcome.fixedContent = outcome.content))
       => (~outcome.wrote /\ ~outcome.success /\ outcome.fixesApplied = 0
             /\ pc \notin {"s_write", "g_write"})
  /\ pc \in {"s_write", "g_write"}
       => (cur.fixedContent # Null /\ cur.fixedContent # cur.content)
  /\ outcome.wrote
       => (outcome.gen = "returned" /\ outcome.fixedContent # Null
             /\ outcome.fixedContent # outcome.content)
  /\ \A f \in FileNames :
       disk[f] # InitialDisk[f] => f \in touched.written

C5_Witness ==
  /\ fixRequest.type = "general"
  /\ outcome.gen = "returned"
  /\ outcome.fixedContent = outcome.content
  /\ outcome.content # Null
  /\ ~outcome.wrote
  /\ ~outcome.success

\* C6, as claimed: when the call to the reasoning capability fails,
\* generateFixes returns null and does not raise.
C6_NullWhenCallFails ==
  outcome.reply = "error" => (outcome.gen = "returned" /\ outcome.fixedContent = Null)

\* C6, amended: when the call to the reasoning capability fails, generateFixes
\* raises; its caller catches that and records the failed outcome without
\* writing.  generateFixes returns null only for a response without text.
C6_RaisesWhenCallFails ==
  /\ outcome.reply = "error"
       => (outcome.gen = "threw" /\ ~outcome.wrote /\ ~outcome.success
             /\ outcome.fixesApplied = 0)
  /\ (outcome.gen = "returned" /\ outcome.fixedContent = Null)
       => outcome.reply = "notext"

C6_Witness ==
  /\ outcome.reply = "error"
  /\ outcome.gen = "threw"
  /\ calls.generateFixes > 0
  /\ ~outcome.wrote

\* The policy of the specification: type in {style, performance, refactor}
\* and severity other than high.
PolicyAllows(issue) ==
  /\ issue.type \in {"style", "performance", "refactor"}
  /\ issue.type \notin {"bug", "security", "architecture", "documentation"}
  /\ issue.severity \in {"medium", "low"}

\* C7: in a blanket fix run the issues handed to generateFixes are exactly the
\* freshly inspected issues the policy allows, in their order; when none is
\* allowed generateFixes is not called and the file is not written.
C7_OnlyPolicyIssuesHanded ==
  (mode = "fix" /\ fixRequest.type = "general") =>
    /\ outcome.gen # "no"
         => (outcome.handed = SelectSeq(outcome.found, PolicyAllows)
               /\ outcome.handed # << >>)
    /\ pc \in {"g_genfix", "g_write"}
         => (cur.issues = SelectSeq(outcome.found, PolicyAllows) /\ cur.issues # << >>)
    /\ (pc \notin {"g_genfix", "g_write"} /\ SelectSeq(outcome.found, PolicyAllows) = << >>)
         => (outcome.gen = "no" /\ ~outcome.wrote)

C7_Witness ==
  /\ mode = "fix"
  /\ fixRequest.type = "general"
  /\ Len(outcome.found) = 3
  /\ outcome.handed = << Issue("performance", "medium"), Issue("refactor", "low") >>
  /\ outcome.gen = "returned"
  /\ outcome.wrote

RemovedNames == { files[i].filename : i \in { j \in 1..Len(files) : files[j].status = "removed" } }

\* C8: no artifact of status removed is ever passed to analyzeCode or
\* generateFixes, or written.
C8_RemovedNeverTouched ==
  RemovedNames \cap (touched.inspected \cup touched.fixed \cup touched.written) = {}

\* The number of issues of all analysis results.
RECURSIVE TotalIssues(_)
TotalIssues(rs) ==
  IF rs = << >> THEN 0 ELSE Len(Head(rs).analysis.issues) + TotalIssues(Tail(rs))

\* The number of issues of severity high of all analysis results.
RECURSIVE HighIssues(_)
HighIssues(rs) ==
  IF rs = << >> THEN 0
  ELSE Cardinality({ k \in 1..Len(Head(rs).analysis.issues) :
                       Head(rs).analysis.issues[k].severity = "high" })
         + HighIssues(Tail(rs))

\* C9: the posted review carries the counts over all results and the verdict
\* of the first matching rule: a high-severity issue gives REQUEST_CHANGES and
\* "changes requested"; else more than 5 issues give COMMENT and "needs
\* improvement"; else an issue gives COMMENT and "approved with suggestions";
\* else COMMENT and "approved".
C9_VerdictByFirstMatch ==
  \A i \in 1..Len(postedReviews) :
    LET r == postedReviews[i]
        total == TotalIssues(reviews)
        high == HighIssues(reviews)
    IN /\ r.totalIssues = total
       /\ r.highSeverityIssues = high
       /\ high > 0 => (r.event = "REQUEST_CHANGES" /\ r.assessment = "CHANGES REQUESTED")
       /\ (high = 0 /\ total > 5)
            => (r.event = "COMMENT" /\ r.assessment = "NEEDS IMPROVEMENT")
       /\ (high = 0 /\ total > 0 /\ total <= 5)
            => (r.event = "COMMENT" /\ r.assessment = "APPROVED WITH SUGGESTIONS")
       /\ total = 0 => (r.event = "COMMENT" /\ r.assessment = "APPROVED")

C9_Witness ==
  /\ Len(postedReviews) = 1
  /\ postedReviews[1].totalIssues = 6
  /\ postedReviews[1].highSeverityIssues = 0
  /\ postedReviews[1].assessment = "NEEDS IMPROVEMENT"
  /\ postedReviews[1].event = "COMMENT"

ThreeNits ==
  /\ Len(reviews) = 3
  /\ \A i \in 1..3 : reviews[i].analysis.issues = << Issue("style", "low") >>

\* C10: a review run that reaches its reporting step and whose every post
\* succeeds ends with exactly one review posted and one comment per issue, so
\* as many issue comments as there are issues in all results; three files of
\* one low style issue each give one "approved with suggestions" review
\* citing 3 issues, 0 of high severity, and 3 issue comments.
C10_OneCommentPerIssue ==
  (mode = "review" /\ pc = "done" /\ work # << >> /\ EveryPostSucceeded) =>
    /\ Len(postedReviews) = 1
    /\ posted.issue = TotalIssues(reviews)
    /\ posted.issue = postedReviews[1].totalIssues
    /\ CommentsPosted = posted.issue
    /\ ThreeNits =>
         /\ postedReviews[1].assessment = "APPROVED WITH SUGGESTIONS"
         /\ postedReviews[1].totalIssues = 3
         /\ postedReviews[1].highSeverityIssues = 0
         /\ posted.issue = 3

C10_Witness ==
  /\ mode = "review"
  /\ pc = "done"
  /\ EveryPostSucceeded
  /\ ThreeNits
  /\ Len(postedReviews) = 1
  /\ posted.issue = 3

\* C11: a review run in which an exception reached the top-level catch makes
\* one attempt to post an error comment, posts at most that one, and ends with
\* a non-zero exit code.
C11_ErrorEndsNonZero ==
  (mode = "review" /\ err # "" /\ pc = "done") =>
    /\ calls.createComment = 1
    /\ posted.error <= 1
    /\ CommentsPosted = posted.error
    /\ postedReviews = << >>
    /\ exitCode # 0

MissingCredential == ~(env.apiKey /\ env.token /\ env.prNumber)

\* C16: with CLAUDE_API_KEY, GITHUB_TOKEN or PR_NUMBER missing, the run makes
\* no external call, posts nothing, writes nothing and ends with a non-zero
\* exit code, without entering the pipeline.
C16_MissingCredentialIsFatal ==
  MissingCredential =>
    /\ calls = NoCalls
    /\ CommentsPosted = 0
    /\ postedReviews = << >>
    /\ disk = InitialDisk
    /\ pc \in {"r_main", "f_main", "failed"}
    /\ exitCode # 0
    /\ pc = "failed" => exitCode = 1

C16_Witness ==
  /\ env = [apiKey |-> TRUE, token |-> TRUE, prNumber |-> FALSE]
  /\ pc = "failed"
  /\ exitCode = 1
  /\ calls = NoCalls
  /\ CommentsPosted = 0

\* Glob matching of the whole path: "**" is any run of characters, "*" any
\* run of characters other than the separator, anything else is itself.
RECURSIVE GlobMatch(_, _)
GlobMatch(pattern, path) ==
  IF pattern = "" THEN path = ""
  ELSE IF StartsWith(pattern, "**")
       THEN \E k \in 0..Len(path) : GlobMatch(Drop(pattern, 2), Drop(path, k))
  ELSE IF CharAt(pattern, 1) = "*"
       THEN \E k \in 0..Len(path) :
              /\ \A j \in 1..k : CharAt(path, j) # "/"
              /\ GlobMatch(Drop(pattern, 1), Drop(path, k))
  ELSE /\ path # ""
       /\ CharAt(path, 1) = CharAt(pattern, 1)
       /\ GlobMatch(Drop(pattern, 1), Drop(path, 1))

\* The part of a path after its last separator.
RECURSIVE Basename(_)
Basename(path) ==
  IF includes(path, "/")
  THEN Basename(Drop(path, CHOOSE i \in 1..Len(path) : CharAt(path, i) = "/"))
  ELSE path

\* The widest usual reading of a glob: it matches the whole path, or, when it
\* names no directory, the file name.
GlobMatches(pattern, path) ==
  \/ GlobMatch(pattern, path)
  \/ ~includes(pattern, "/") /\ GlobMatch(pattern, Basename(path))

GlobExcluded(path) ==
  \E p \in 1..Len(excludePatterns) : GlobMatches(excludePatterns[p], path)

Names(fs) == { fs[i].filename : i \in 1..Len(fs) }

\* No artifact the selector returns matches an exclude pattern.
SelectedMatchNoGlob ==
  (mode = "select" /\ pc = "selected") =>
    \A f \in Names(work) : ~GlobExcluded(f)

\* C12: the selector returns exactly the artifacts whose path matches no
\* exclude pattern under glob semantics, in their order: none that matches is
\* returned and none that does not match is dropped.
C12_SelectsByGlob ==
  (mode = "select" /\ pc = "selected") =>
    work = SelectSeq(files, LAMBDA f : ~GlobExcluded(f.filename))

\* The configured maximum of the run: max files per review, max changes per run.
RunLimit == IF mode = "review" THEN maxFilesPerReview ELSE maxChangesPerRun

Smaller(a, b) == IF a < b THEN a ELSE b

FilesTouched == touched.inspected \cup touched.fixed \cup touched.written

\* C13: in a review run and in a blanket fix run the loop runs over the first
\* N artifacts of the filtered list, in their order, N being the configured
\* maximum; it visits each of them, and nothing beyond them is passed to
\* analyzeCode or generateFixes, or written.
C13_FirstNProcessed ==
  (mode = "review" \/ (mode = "fix" /\ fixRequest.type = "general")) =>
    LET filtered == Filtered(files)
        n == Smaller(Len(filtered), RunLimit)
    IN /\ work # << >> => (Len(work) = n /\ \A i \in 1..n : work[i] = filtered[i])
       /\ FilesTouched \subseteq { filtered[i].filename : i \in 1..n }
       /\ pc \in {"r_analyze", "g_read", "g_inspect", "g_genfix", "g_write"}
            => idx <= Len(work)
       /\ pc \in {"r_summary", "g_summary"} => idx = Len(work) + 1

C13_Witness ==
  /\ mode = "fix"
  /\ fixRequest.type = "general"
  /\ pc = "done"
  /\ Len(Filtered(files)) = maxChangesPerRun + 2
  /\ Len(work) = maxChangesPerRun
  /\ work[maxChangesPerRun].filename \in touched.written
  /\ files[maxChangesPerRun + 1].filename \notin FilesTouched
  /\ (files[maxChangesPerRun + 1].additions + files[maxChangesPerRun + 1].deletions) = 2

\* The same in a review run: 52 files, the 50th inspected, the 51st not.
ReviewTruncated ==
  /\ mode = "review"
  /\ pc = "done"
  /\ Len(Filtered(files)) = maxFilesPerReview + 2
  /\ Len(work) = maxFilesPerReview
  /\ work[maxFilesPerReview].filename \in touched.inspected
  /\ files[maxFilesPerReview + 1].filename \notin FilesTouched

Inspected == mode = "inspect" /\ pc # "inspect" /\ apiResponse.kind # "error"

\* The response holds the serialisation of an analysis object somewhere.
HoldsJsonObject(response) ==
  /\ response.kind = "text"
  /\ \E a \in AnalysisChoices : includes(response.text, stringify(a))

First200(text) == SubSeq(text, 1, Smaller(Len(text), 200))

\* C14, as claimed: for a response that holds no JSON object, analyzeCode
\* returns (does not raise) the summary made of the first 200 characters of
\* the raw text, no issue, rating "unknown" and exactly one recommendation.
C14_DegradedResult ==
  (Inspected /\ ~HoldsJsonObject(apiResponse)) =>
    /\ pc = "returned"
    /\ apiAnalysis.summary = First200(apiResponse.text)
    /\ apiAnalysis.issues = << >>
    /\ apiAnalysis.overallRating = "unknown"
    /\ apiAnalysis.recommendations = << "Manual review recommended" >>

\* The text has a "{" with a "}" somewhere after it.
HasBraces(text) ==
  \E i \in 1..Len(text) : \E j \in (i + 1)..Len(text) :
    CharAt(text, i) = "{" /\ CharAt(text, j) = "}"

\* C14, amended: for a response that holds no JSON object analyzeCode never
\* raises and returns no issue and rating "unknown".  When the response is
\* text without a pair of braces, the summary is the first 200 characters of
\* the text followed by "..." and there is the one recommendation of a manual
\* review; when the response has no text, or braces that do not enclose JSON,
\* the summary is "Error parsing response" and there is no recommendation.
C14_DegradedResultAmended ==
  (Inspected /\ ~HoldsJsonObject(apiResponse)) =>
    /\ pc = "returned"
    /\ apiAnalysis.issues = << >>
    /\ apiAnalysis.overallRating = "unknown"
    /\ IF apiResponse.kind = "text" /\ ~HasBraces(apiResponse.text)
       THEN /\ apiAnalysis.summary = First200(apiResponse.text) \o "..."
            /\ apiAnalysis.recommendations = << "Manual review recommended" >>
       ELSE /\ apiAnalysis.summary = "Error parsing response"
            /\ apiAnalysis.recommendations = << >>

C14_Witness ==
  /\ Inspected
  /\ pc = "returned"
  /\ apiResponse.kind = "text"
  /\ ~HasBraces(apiResponse.text)
  /\ Len(apiResponse.text) > 200
  /\ Len(apiAnalysis.summary) = 203
  /\ apiAnalysis.overallRating = "unknown"

\* The response is one analysis object between two pieces of prose.
Embeds(response, a) ==
  /\ response.kind = "text"
  /\ \E b \in ProseBefore, c \in ProseAfter : response.text = b \o stringify(a) \o c

\* The same, the prose holding no brace.
EmbedsInPlainProse(response, a) ==
  /\ response.kind = "text"
  /\ \E b \in ProseBefore, c \in ProseAfter :
       /\ response.text = b \o stringify(a) \o c
       /\ ~includes(b \o c, "{")
       /\ ~includes(b \o c, "}")

\* An analysis object between prose without braces comes back unchanged.
PlainProseRoundTrip ==
  \A a \in AnalysisChoices :
    (Inspected /\ EmbedsInPlainProse(apiResponse, a)) =>
      (pc = "returned" /\ apiAnalysis = a)

\* C15: for a response that is one well-formed JSON analysis object between
\* prose, with or without braces in the prose, analyzeCode returns that
\* object unchanged.
C15_EmbeddedJsonReturned ==
  \A a \in AnalysisChoices :
    (Inspected /\ Embeds(apiResponse, a)) => (pc = "returned" /\ apiAnalysis = a)

\* A review run whose fetch succeeded and left nothing after filtering.
EmptySelection ==
  /\ mode = "review"
  /\ calls.getPullRequestFiles = 1
  /\ err = ""
  /\ Filtered(files) = << >>

\* C17: a review run whose filtered list is empty makes one createComment
\* call, for the notice, and nothing else: analyzeCode and createReview are
\* never called, no review, issue comment or error comment is posted, and the
\* process exits with 0.  The notice is posted when the platform accepts the
\* call, and a notice is posted in no other review run.
C17_EmptyListNotice ==
  /\ EmptySelection =>
       /\ pc \in {"r_notice", "done"}
       /\ calls.analyzeCode = 0
       /\ calls.createReview = 0
       /\ postedReviews = << >>
       /\ CommentsPosted = posted.notice
       /\ calls.createComment = (IF pc = "r_notice" THEN 0 ELSE 1)
       /\ (pc # "r_notice" /\ EveryCommentPosted) => posted.notice = 1
       /\ pc = "done" => exitCode = 0
  /\ (mode = "review" /\ posted.notice > 0) => EmptySelection

C17_Witness ==
  /\ EmptySelection
  /\ Len(files) > 0
  /\ pc = "done"
  /\ exitCode = 0
  /\ posted.notice = 1
  /\ calls.createComment = 1
  /\ calls.analyzeCode = 0

\* How many files of the list the loop of a review run has dealt with.
ReviewVisited ==
  IF mode # "review" THEN 0
  ELSE IF pc = "r_analyze" THEN idx - 1
  ELSE IF pc \in {"r_summary", "r_comments", "done"} THEN Len(work)
  ELSE 0

\* The condition of the claim, "non-empty" read as holding more than blanks.
Eligible(file) ==
  /\ file.status # "removed"
  /\ trim(file.patch) # ""
  /\ file.additions + file.deletions <= 1000

\* C18: in a review run analyzeCode is called for a selected artifact exactly
\* when its status is not removed, its patch is not empty and it has at most
\* 1000 changed lines; skipping an artifact raises nothing and posts nothing.
C18_InspectedIffEligible ==
  mode = "review" =>
    /\ \A i \in 1..ReviewVisited :
         work[i].filename \in touched.inspected <=> Eligible(work[i])
    /\ calls.analyzeCode = Cardinality(touched.inspected)
    /\ pc \in {"r_analyze", "r_summary"} => (err = "" /\ CommentsPosted = 0)

\* The same on the statuses of the data model: added, modified, removed.
InspectedIffEligibleInDataModel ==
  mode = "review" =>
    /\ \A i \in 1..ReviewVisited :
         work[i].status \in {"added", "modified", "removed"} =>
           (work[i].filename \in touched.inspected <=> Eligible(work[i]))
    /\ calls.analyzeCode = Cardinality(touched.inspected)
    /\ pc \in {"r_analyze", "r_summary"} => (err = "" /\ CommentsPosted = 0)

\* A file of exactly 1000 changed lines is inspected.
InspectedAtLimit ==
  /\ mode = "review"
  /\ \E i \in 1..ReviewVisited :
       /\ work[i].additions + work[i].deletions = 1000
       /\ work[i].filename \in touched.inspected

ChangedLines(file) == file.additions + file.deletions

Unsupported(file) ==
  detectLanguage(file.filename) \notin
    { "javascript", "typescript", "python", "java", "go", "rust", "cpp", "csharp" }

BlanketRun == mode = "fix" /\ fixRequest.type = "general"

\* C19: in a blanket fix run a file of more than 500 changed lines, or of a
\* language outside the allowlist, is never passed to analyzeCode or
\* generateFixes and never written, and its outcome is the failed one with no
\* fix; the size check refuses only files above 500, the language check only
\* unsupported languages, and a file that passes every early return, one of
\* exactly 500 changed lines included, is inspected.
C19_SkippedBySizeOrLanguage ==
  BlanketRun =>
    /\ \A i \in 1..Len(work) :
         (ChangedLines(work[i]) > 500 \/ Unsupported(work[i]))
           => work[i].filename \notin FilesTouched
    /\ \A i \in 1..Len(work) :
         outcome.filename = work[i].filename =>
           /\ (ChangedLines(work[i]) > 500 \/ Unsupported(work[i]))
                => /\ ~outcome.success
                   /\ outcome.fixesApplied = 0
                   /\ outcome.gen = "no"
                   /\ ~outcome.wrote
                   /\ outcome.skip # ""
           /\ outcome.skip = "size" <=> ChangedLines(work[i]) > 500
           /\ outcome.skip = "language" => Unsupported(work[i])
           /\ outcome.skip = "" => work[i].filename \in touched.inspected

C19_Witness ==
  /\ BlanketRun
  /\ pc = "done"
  /\ Len(work) = 3
  /\ work[1].filename = "b.py"
  /\ ChangedLines(work[1]) = 500
  /\ work[2].filename = "lib/c.go"
  /\ work[3].filename = "README.md"
  /\ touched.inspected = {"b.py"}
  /\ "b.py" \in touched.written
  /\ outcome.filename = "README.md"
  /\ outcome.skip = "language"
  /\ ~outcome.success

\* C20: a targeted fix run on a pull request that holds no review and no
\* issue comment reads no file, never calls generateFixes, writes nothing and
\* posts no fix summary.
C20_NoResultsNoFix ==
  (mode = "fix" /\ fixRequest.type = "specific"
     /\ postedReviews = << >> /\ posted.issue = 0) =>
    /\ calls.readFile = 0
    /\ calls.generateFixes = 0
    /\ calls.writeFile = 0
    /\ disk = InitialDisk
    /\ posted.summary = 0

\* Every artifact of every pull request.
AllArtifacts == UNION { { fs[i] : i \in 1..Len(fs) } : fs \in FileLists }

\* The artifacts a review run hands to analyzeCode: added or modified, at most
\* 1000 changed lines, a patch that holds more than blanks.
Inspectable ==
  { f \in AllArtifacts :
      /\ f.status \in {"added", "modified"}
      /\ f.additions + f.deletions <= 1000
      /\ trim(f.patch) # "" }

ReviewedNames == { reviews[i].file.filename : i \in 1..Len(reviews) }

\* The loop over the selected artifacts has been left.
ReviewLoopDone ==
  /\ mode = "review"
  /\ work # << >>
  /\ pc \in {"r_summary", "r_comments", "done"}

BlanketLoopDone ==
  /\ BlanketRun
  /\ calls.getPullRequestFiles = 1
  /\ err = ""
  /\ pc \in {"g_summary", "done"}

\* C21: when analyzeCode or generateFixes raises, or a file cannot be read or
\* written, nothing reaches the top-level catch: the artifact is left out of
\* the reviews, or has the failed outcome and is not written; the loop goes on
\* over every remaining artifact, and the run ends with its attempt to post
\* the review or the fix summary, not an error comment.
C21_FailureAbortsOnlyArtifact ==
  /\ touched.failed # {} =>
       /\ err = ""
       /\ posted.error = 0
       /\ pc \notin {"r_error", "f_error", "failed"}
  /\ \A f \in touched.failed : f \notin touched.written /\ f \notin ReviewedNames
  /\ outcome.filename \in touched.failed =>
       (~outcome.success /\ outcome.fixesApplied = 0 /\ ~outcome.wrote)
  /\ ReviewLoopDone =>
       \A i \in 1..Len(work) :
         /\ work[i] \in Inspectable => work[i].filename \in touched.inspected
         /\ (work[i] \in Inspectable /\ work[i].filename \notin touched.failed)
              => work[i].filename \in ReviewedNames
  /\ BlanketLoopDone =>
       calls.readFile = Cardinality({ i \in 1..Len(work) : ChangedLines(work[i]) <= 500 })
  /\ (pc = "done" /\ touched.failed # {}) =>
       IF mode = "review"
       THEN calls.createReview = 1 /\ posted.notice = 0
       ELSE calls.createComment = 1 /\ posted.notice = 0

C21_Witness ==
  /\ mode = "review"
  /\ pc = "done"
  /\ Len(work) = 3
  /\ work[1].filename \in touched.failed
  /\ work[3].filename \in ReviewedNames
  /\ Len(reviews) = 1
  /\ Len(postedReviews) = 1
  /\ posted.error = 0

\* The same in a blanket fix run: the write of the first file failed, the
\* second file was written and the summary posted.
BlanketFailureConfined ==
  /\ BlanketRun
  /\ pc = "done"
  /\ Len(work) >= 2
  /\ work[1].filename \in touched.failed
  /\ work[1].filename \in touched.fixed
  /\ work[2].filename \in touched.written
  /\ posted.summary = 1
  /\ fixSummary.fixedFiles = 1

\* A call to the platform was rejected: getPullRequest or getPullRequestFiles
\* (their messages reach err), createReview or createComment (fewer accepted
\* than attempted).
PlatformCallFailed ==
  \/ err \in {"getPullRequest failed", "getPullRequestFiles failed"}
  \/ calls.createReview > Len(postedReviews)
  \/ calls.createComment > CommentsPosted

\* A call to the reasoning capability was rejected: the health check, an
\* analyzeCode of a review run, or a generateFixes.
InferFailed ==
  \/ err = "MCP connection health check failed"
  \/ mode = "review" /\ touched.failed # {}
  \/ outcome.gen = "threw"

\* The failures that do reach the top-level catch.
FetchFailed ==
  err \in {"getPullRequest failed", "getPullRequestFiles failed",
           "MCP connection health check failed"}

\* C22: a run in which a call to the platform or to the reasoning capability
\* failed ends through the top-level catch, with one attempt to post an error
\* comment and no review or summary, and no call of the pipeline is made twice.
C22_CallFailureBecomesErrorComment ==
  (pc = "done" /\ (PlatformCallFailed \/ InferFailed)) =>
    /\ err # ""
    /\ calls.createComment = 1
    /\ posted.error <= 1
    /\ CommentsPosted = posted.error
    /\ postedReviews = << >>
    /\ calls.getPullRequest <= 1
    /\ calls.getPullRequestFiles <= 1

\* The same for the failures of the health check and of the two fetches, which
\* is how far the code goes.
FetchFailureBecomesErrorComment ==
  (pc = "done" /\ FetchFailed) =>
    /\ calls.createComment = 1
    /\ posted.error <= 1
    /\ CommentsPosted = posted.error
    /\ postedReviews = << >>
    /\ calls.getPullRequest <= 1
    /\ calls.getPullRequestFiles <= 1
    /\ calls.healthCheck = 1

\* C23: no call is made twice for an artifact.  analyzeCode and generateFixes
\* are called as often as there are artifacts they were called for, so a
\* rejected call is not issued again; a write is attempted only after its own
\* generateFixes, and no file is written twice; no more artifacts are
\* inspected than the loop runs over.
C23_NoRetry ==
  /\ calls.analyzeCode = Cardinality(touched.inspected)
  /\ calls.generateFixes = Cardinality(touched.fixed)
  /\ calls.writeFile <= calls.generateFixes
  /\ touched.written \subseteq touched.fixed
  /\ mode = "fix" => fixedFiles = Cardinality(touched.written)
  /\ mode \in {"review", "fix"} =>
       /\ calls.analyzeCode <= Len(work)
       /\ calls.readFile <= Len(work) + Len(issuesByFile)
       /\ calls.healthCheck <= 1
       /\ calls.getPullRequest <= 1
       /\ calls.getPullRequestFiles <= 1
       /\ calls.createReview <= 1

\* A blanket run in which one analyzeCode and one generateFixes were rejected
\* and a file was written.
C23_Witness ==
  /\ BlanketRun
  /\ pc = "done"
  /\ (touched.failed \cap touched.inspected) \ touched.fixed # {}
  /\ outcome.gen = "threw"
  /\ touched.written # {}
  /\ calls.analyzeCode = 3
  /\ calls.generateFixes = 2
  /\ calls.writeFile = 1

Terminated == pc \in {"done", "failed"}

\* C24: when every external call returns or fails, every review run and every
\* fix run ends: main reaches process.exit, after the pipeline or after the
\* error comment.
C24_Terminates == <>Terminated

\* A blanket fix run that went through its whole pipeline for three files.
C24_Witness ==
  /\ BlanketRun
  /\ Terminated
  /\ exitCode = 0
  /\ Len(work) = 3
  /\ calls.analyzeCode = 3
  /\ calls.writeFile = 3
  /\ calls.createComment = 1

\* No step leaves a terminated run, and a run that has not terminated can
\* take a step.
TerminatedIsFinal == Terminated <=> ~ENABLED Next


\* --------------------------------------------------------------------
\* The external calls a run has made so far.
CallsMade ==
  calls.healthCheck + calls.getPullRequest + calls.getPullRequestFiles
    + calls.analyzeCode + calls.generateFixes + calls.readFile
    + calls.writeFile + calls.createReview + calls.createComment

\* The issues of the review of a file of the work list, none when the file
\* has no review.
IssuesFoundIn(file) ==
  IF \E k \in 1..Len(reviews) : reviews[k].file = file
  THEN (CHOOSE r \in { reviews[k] : k \in 1..Len(reviews) } : r.file = file).analysis.issues
  ELSE << >>

\* The issue comments due for the files work[from..], file by file in the
\* order of the work list and issue by issue in the order of the analysis.
RECURSIVE CommentsDueFrom(_)
CommentsDueFrom(from) ==
  IF from > Len(work) THEN << >>
  ELSE [i \in 1..Len(IssuesFoundIn(work[from])) |->
          [filename |-> work[from].filename, issue |-> IssuesFoundIn(work[from])[i]]]
         \o CommentsDueFrom(from + 1)

IsPrefix(s, t) == Len(s) <= Len(t) /\ s = SubSeq(t, 1, Len(s))

\* In a review run: nothing is posted while the loop inspects, an issue
\* comment is attempted only after the one attempt to post the review, and the
\* issue comments attempted so far are the first of the comments due, in file
\* order and within a file in issue order; all of them once the run is done.
ReviewPostsInOrder ==
  mode = "review" =>
    /\ pc = "r_analyze" =>
         calls.createReview = 0 /\ calls.createComment = 0
    /\ touched.attempts # << >> => calls.createReview = 1
    /\ pc \in {"r_summary", "r_comments", "done"} =>
         IsPrefix(touched.attempts, CommentsDueFrom(1))
    /\ (pc = "done" /\ calls.createReview = 1) =>
         touched.attempts = CommentsDueFrom(1)

\* A step of a review run makes at most one external call and attempts at most
\* one issue comment, and once the review or a comment has been attempted no
\* further file is inspected.
ReviewStepsOneCall ==
  mode = "review" =>
    /\ CallsMade' <= CallsMade + 1
    /\ Len(touched'.attempts) <= Len(touched.attempts) + 1
    /\ (calls.createReview + calls.createComment > 0) =>
         calls'.analyzeCode = calls.analyzeCode

\* C25: in a review run all inspections finish before anything is posted, the
\* review is attempted before any issue comment, and the issue comments follow
\* one at a time in artifact order and, within an artifact, in issue order,
\* each step of the run making at most one external call.
C25_InspectThenReviewThenComments ==
  []ReviewPostsInOrder /\ [][ReviewStepsOneCall]_vars

\* Two reviewed files with two and three issues: five comments attempted.
C25_Witness ==
  /\ mode = "review"
  /\ pc = "done"
  /\ Len(reviews) = 2
  /\ Len(reviews[1].analysis.issues) = 2
  /\ Len(reviews[2].analysis.issues) = 3
  /\ Len(touched.attempts) = 5
  /\ touched.attempts[2].filename = reviews[1].file.filename
  /\ touched.attempts[2].issue = Issue("security", "medium")
  /\ touched.attempts[3].filename = reviews[2].file.filename
  /\ touched.attempts[3].issue = Issue("performance", "medium")

\* --------------------------------------------------------------------
\* The writes of the two processes, each with the place it has among all
\* calls of writeFile.
WritesOfRun(t) == { t.writes[i] : i \in 1..Len(t.writes) }

AllWrites == WritesOfRun(touched) \cup WritesOfRun(runs[1].touched)

WritesTo(f) == { w \in AllWrites : w.filename = f }

LastWriteTo(f) == CHOOSE w \in WritesTo(f) : \A v \in WritesTo(f) : v.at <= w.at

\* Every file holds what the last write to it put there, whatever the other
\* process wrote before, and every write put there what its process made from
\* the content it had read; a file nobody wrote is as it was.
LastWriterWins ==
  /\ \A f \in DOMAIN disk :
       IF WritesTo(f) = {} THEN disk[f] = InitialDisk[f]
       ELSE disk[f] = LastWriteTo(f).content
  /\ \A w \in AllWrites : w.content = w.read \o "+fix"

Ended(p) == p \in {"done", "failed"}

BothEnded == Ended(pc) /\ Ended(runs[1].pc)

\* The summary a process got accepted reports its own writes.
OwnSummary(summary, t) ==
  summary # NoSummary => summary.fixedFiles = Len(t.writes)

\* When both processes have ended each has made its one attempt to post a
\* summary, and the accepted ones report each process's own numbers.
EachPostsItsSummary ==
  BothEnded =>
    /\ pc = "done" /\ runs[1].pc = "done"
    /\ calls.createComment = 2
    /\ posted.error = 0
    /\ posted.summary =
         (IF fixSummary # NoSummary THEN 1 ELSE 0)
           + (IF runs[1].fixSummary # NoSummary THEN 1 ELSE 0)
    /\ OwnSummary(fixSummary, touched)
    /\ OwnSummary(runs[1].fixSummary, runs[1].touched)

\* C26: two fix runs on one pull request and one working directory are not
\* coordinated: however their reads, generateFixes calls and writes
\* interleave, both end and each posts its own summary, and a file holds what
\* the last write put there, also when that process had read the file before
\* the other one wrote it.
C26_LastWriterWins ==
  /\ [](runs # << >> => LastWriterWins /\ EachPostsItsSummary)
  /\ (runs # << >> => <>BothEnded)

\* Both processes read src/a.js as it was, both wrote it, and the file holds
\* one fix, not two: the first write is lost.
C26_Witness ==
  /\ runs # << >>
  /\ BothEnded
  /\ posted.summary = 2
  /\ fixSummary.fixedFiles = 1
  /\ runs[1].fixSummary.fixedFiles = 1
  /\ \E v \in WritesOfRun(runs[1].touched), w \in WritesOfRun(touched) :
       /\ v.filename = "src/a.js" /\ w.filename = "src/a.js"
       /\ v.at = 1 /\ w.at = 2
       /\ v.read = InitialDisk["src/a.js"]
       /\ w.read = InitialDisk["src/a.js"]
       /\ disk["src/a.js"] = InitialDisk["src/a.js"] \o "+fix"

\* The second process read the file after the first had written it: both
\* fixes are in the file.
SecondFixOnTopOfFirst ==
  /\ runs # << >>
  /\ BothEnded
  /\ Cardinality(WritesTo("src/a.js")) = 2
  /\ disk["src/a.js"] = InitialDisk["src/a.js"] \o "+fix+fix"

\* --------------------------------------------------------------------
\* A blanket fix run whose summary the platform accepted.
BlanketSummaryPosted ==
  /\ mode = "fix"
  /\ fixRequest.shouldFix
  /\ fixRequest.type = "general"
  /\ pc = "done"
  /\ fixSummary # NoSummary

\* C27: in the summary of a blanket fix run the files-processed count is the
\* number of files the loop iterated over, so it is at most the configured
\* maximum of changes per run and not below the files-modified count.
C27_ProcessedIsIterated ==
  BlanketSummaryPosted =>
    /\ fixSummary.totalFiles = Len(work)
    /\ fixSummary.totalFiles <= maxChangesPerRun
    /\ fixSummary.fixedFiles <= fixSummary.totalFiles

\* What the summary does report: the number of files that passed the filter,
\* which is the number iterated over only up to the maximum.
ProcessedIsFiltered ==
  BlanketSummaryPosted =>
    /\ fixSummary.totalFiles = Len(filterFiles(files))
    /\ Len(work) = Smaller(fixSummary.totalFiles, maxChangesPerRun)
    /\ fixSummary.fixedFiles <= Len(work)
    /\ fixSummary.fixedFiles <= fixSummary.totalFiles

\* A pull request of more files than a run takes: 12 reported, 10 iterated.
ProcessedAboveMaximum ==
  /\ BlanketSummaryPosted
  /\ Len(work) = maxChangesPerRun
  /\ fixSummary.totalFiles = maxChangesPerRun + 2

\* --------------------------------------------------------------------
\* The files the run changed in the working directory.
ChangedOnDisk == { f \in DOMAIN disk : disk[f] # InitialDisk[f] }

\* The number of issues generateFixes was called with for a written file.
HandedFor(f) == (CHOOSE w \in WritesOfRun(touched) : w.filename = f).handed

RECURSIVE SumHanded(_)
SumHanded(F) ==
  IF F = {} THEN 0
  ELSE LET f == CHOOSE x \in F : TRUE IN HandedFor(f) + SumHanded(F \ {f})

\* A fix run, targeted or blanket, whose summary the platform accepted.
FixSummaryPosted ==
  /\ mode = "fix"
  /\ runs = << >>
  /\ pc = "done"
  /\ fixSummary # NoSummary

\* C28: the summary of a fix run reports as files modified the number of
\* files whose write succeeded and as total fixes the sum, over those files,
\* of the number of issues handed to generateFixes; so total fixes is at least
\* files modified, and both are 0 when nothing was written.
C28_SummaryCountsWrites ==
  FixSummaryPosted =>
    /\ touched.written = ChangedOnDisk
    /\ \A f \in touched.written : \E w \in WritesOfRun(touched) : w.filename = f
    /\ fixSummary.fixedFiles = Cardinality(ChangedOnDisk)
    /\ fixSummary.totalFixes = SumHanded(ChangedOnDisk)
    /\ fixSummary.totalFixes >= fixSummary.fixedFiles
    /\ ChangedOnDisk = {} =>
         fixSummary.fixedFiles = 0 /\ fixSummary.totalFixes = 0

\* Two files written, for one of which two issues were handed over, and a
\* third whose write failed and is not counted.
C28_Witness ==
  /\ FixSummaryPosted
  /\ fixSummary.fixedFiles = 2
  /\ fixSummary.totalFixes = 3
  /\ Cardinality(touched.written) = 2
  /\ \E w \in WritesOfRun(touched) : w.handed = 2
  /\ calls.writeFile = 3

\* A targeted run that wrote example.js reports one file and one fix.
TargetedSummaryCountsWrite ==
  /\ FixSummaryPosted
  /\ fixRequest.type = "specific"
  /\ touched.written = {"example.js"}
  /\ fixSummary.fixedFiles = 1
  /\ fixSummary.totalFixes = 1

\* --------------------------------------------------------------------
\* The degraded results of parseResponse: no issue, rating "unknown".
Degraded(a) == a.overallRating = "unknown" /\ a.issues = << >>

\* A review run over a non-empty list that has left its loop with no result
\* but degraded ones: every file was skipped, failed its inspection or got the
\* fallback result.
NothingInspectedWell ==
  /\ mode = "review"
  /\ work # << >>
  /\ pc \in {"r_summary", "r_comments", "done"}
  /\ \A i \in 1..Len(reviews) : Degraded(reviews[i].analysis)

\* C29: a review run whose filtered list is not empty but whose every selected
\* file is skipped, fails inspection or yields the degraded result still
\* attempts the review, labelled approved and with event COMMENT, never
\* REQUEST_CHANGES, and attempts no issue comment.
C29_NothingFoundIsApproved ==
  NothingInspectedWell =>
    /\ pc # "r_comments"
    /\ pc = "done" => calls.createReview = 1
    /\ calls.createComment = 0
    /\ touched.attempts = << >>
    /\ posted = NothingPosted
    /\ \A i \in 1..Len(postedReviews) :
         /\ postedReviews[i].assessment = "APPROVED"
         /\ postedReviews[i].event = "COMMENT"
         /\ postedReviews[i].totalIssues = 0
         /\ postedReviews[i].filesAnalyzed = Len(reviews)

\* Three files: one skipped, one whose inspection failed, one with the
\* fallback result; the review is posted as approved.
C29_Witness ==
  /\ NothingInspectedWell
  /\ pc = "done"
  /\ Len(work) = 3
  /\ Len(reviews) = 1
  /\ reviews[1].analysis = ParseErrorFallback
  /\ Cardinality(touched.inspected) = 2
  /\ Cardinality(touched.failed) = 1
  /\ Len(postedReviews) = 1
  /\ postedReviews[1].assessment = "APPROVED"
  /\ postedReviews[1].event = "COMMENT"

\* The same with no result at all: zero files analyzed, approved.
ApprovedWithNothingAnalyzed ==
  /\ NothingInspectedWell
  /\ pc = "done"
  /\ reviews = << >>
  /\ Len(postedReviews) = 1
  /\ postedReviews[1].assessment = "APPROVED"
  /\ postedReviews[1].filesAnalyzed = 0

\* --------------------------------------------------------------------
HealthCheckFailed == err = HealthCheckError

\* C30: in both bots the health check comes before every other external call
\* and is made once; when it fails the run fetches neither the pull request
\* nor its files, calls neither analyzeCode nor generateFixes, reads and
\* writes no file and posts no review, its only external effect being one
\* attempt to post an error comment; whether or not that post is accepted the
\* run returns and the process exits with 0.
C30_HealthCheckFirst ==
  /\ calls.healthCheck <= 1
  /\ calls.healthCheck = 0 => CallsMade = 0
  /\ HealthCheckFailed =>
       /\ calls.healthCheck = 1
       /\ calls.getPullRequest = 0
       /\ calls.getPullRequestFiles = 0
       /\ calls.analyzeCode = 0
       /\ calls.generateFixes = 0
       /\ calls.readFile = 0
       /\ calls.writeFile = 0
       /\ calls.createReview = 0
       /\ calls.createComment <= 1
       /\ disk = InitialDisk
       /\ touched = NothingTouched
       /\ postedReviews = << >>
       /\ posted.issue = 0 /\ posted.notice = 0 /\ posted.summary = 0
       /\ posted.error <= calls.createComment
       /\ pc \in {"r_error", "f_error", "done"}
       /\ pc = "done" => calls.createComment = 1 /\ exitCode = 0

\* A fix run whose health check failed and whose error comment was rejected:
\* the run has returned and the exit code is 0.
C30_Witness ==
  /\ mode = "fix"
  /\ HealthCheckFailed
  /\ pc = "done"
  /\ calls.createComment = 1
  /\ posted.error = 0
  /\ exitCode = 0
  /\ CallsMade = 2

\* The same in a review run, the error comment accepted.
ReviewHealthCheckFailed ==
  /\ mode = "review"
  /\ HealthCheckFailed
  /\ pc = "done"
  /\ posted.error = 1
  /\ CallsMade = 2

====
